---- MODULE Spec2Model ----
(***************************************************************************)
(* Host-side controller of a three-axis linear-motor manipulator.          *)
(*                                                                         *)
(* The module models                                                       *)
(*   - the drive worker (Manipulator/hardware/Drivers.py): the method      *)
(*     queue and its worker thread, Driver.send with its counters, retry   *)
(*     and warning/error handlers, and the queued tasks;                   *)
(*   - the controller (manipulator/control.py): the aggregate operations   *)
(*     that fan out one task per drive and join the futures.               *)
(*                                                                         *)
(* A worker step runs the thread from one blocking point to the next: the  *)
(* blocking points are queue.get (line 66) and datagram.recieve (line 144).*)
(* A controller step runs the main thread from one blocking point          *)
(* (Future.result, time.sleep) to the next.                                *)
(***************************************************************************)
EXTENDS Integers, Sequences, FiniteSets, TLC

VARIABLES
    driver,     \* d -> the fields of the Driver object
    worker,     \* d -> the worker thread: its task, its position, its locals
    queue,      \* d -> Driver._method_queue (tasks not yet taken)
    future,     \* d -> sequence of the futures of the submitted tasks
    obs,        \* d -> what an observer of the wire and of the log has seen
    ctl,        \* the main thread running the Controller operations
    shared,     \* the Response object that is the default of Request.__init__
    codec,      \* a call of Request.get_binary or of Response.translate_response
    net,        \* the linUDP object, its socket, its listener and its callers
    follower,   \* a Path_follower object and its last call
    linmot      \* d -> the drive itself: its state machine and its control word

vars == <<driver, worker, queue, future, obs, ctl, shared, codec, net, follower, linmot>>

(***************************************************************************)
(* Bounds of the model.                                                    *)
(***************************************************************************)
MaxSends == 3           \* tasks a client submits to the drive (SpecDrive, SpecWarn)
MaxTasks == 2           \* tasks a client submits to the drive (SpecTasks)
MaxPolls == 1           \* rounds of wait_for_change after which the timeout has elapsed
MaxAckRounds == 2       \* acknowledge rounds before the drive stops changing its code
MaxCycles == 2          \* tuples a stream yields / cycles of the feedback loop

\* Driver.__init__(max_send_attempts): a constructor parameter, kept small here.
max_send_attempts == 2

Drives == {1, 2}        \* the enabled drives (Controller.__init__)
DriveOrder == <<1, 2>>  \* Controller.drivers, in list order

None == -1              \* Python None for integer-valued fields

(***************************************************************************)
(* Requests (IO/Requests.py) and the replies of the drive.                 *)
(***************************************************************************)
\* ControlWord.decimal for the control words the driver sends.
CW_zero == 0
CW_switch_on == 1
CW_Error_acknowledge == 128
CW_switch_on_home == 2049

\* Response(...): warn_word and error_code default to True.
Response(state_var, actual_pos, warn_word, error_code, monitoring_channel) ==
    [state_var |-> state_var, actual_pos |-> actual_pos, warn_word |-> warn_word,
     error_code |-> error_code, monitoring_channel |-> monitoring_channel]

ResponseDefault == Response(FALSE, FALSE, TRUE, TRUE, FALSE)

\* Request(response, control_word, MC_interface, realtime_config)
Request(response, control_word, MC_interface, realtime_config) ==
    [response |-> response, control_word |-> control_word,
     MC_interface |-> MC_interface, realtime_config |-> realtime_config]

NoRequest == Request(ResponseDefault, None, "nil", "nil")

\* io.Request(io.Response(state_var=True)): get_main_state, get_MC_count, home
StateQuery == Request(Response(TRUE, FALSE, TRUE, TRUE, FALSE), None, "none", "none")

\* io.Request(realtime_config=No_Operation()): get_realtime_config_command_count
RtCountQuery == Request(ResponseDefault, None, "none", "No_Operation")

ControlRequest(cw) == Request(ResponseDefault, cw, "none", "none")

MotionRequest(mc) == Request(ResponseDefault, None, mc, "none")

\* io.Request(io.Response(actual_pos=True, monitoring_channel=True), MC_interface=...)
MotionFeedbackRequest(mc) ==
    Request(Response(FALSE, TRUE, TRUE, TRUE, TRUE), None, mc, "none")

ReadRamRequest == Request(ResponseDefault, None, "none", "Read_RAM_Value_of_Parameter_by_UPID")

\* acknowledge_error, line 399: Response(error_code=True, warn_word=False)
AckQuery == Request(Response(FALSE, FALSE, FALSE, TRUE, FALSE), None, "none", "none")

\* acknowledge_error, line 409: Response(error_code=False, warn_word=False) + Error_acknowledge
AckCommand ==
    Request(Response(FALSE, FALSE, FALSE, FALSE, FALSE), CW_Error_acknowledge, "none", "none")

\* acknowledge_error, line 411: Response(warn_word=False) + ControlWord()
AckReread == Request(Response(FALSE, FALSE, FALSE, TRUE, FALSE), CW_zero, "none", "none")

\* Request.__init__, line 11: "response: Response = Response()" is evaluated
\* once, so every Request built without a response holds this one object; its
\* entry response_types_included['realtime_config'] starts False.
SharedResponse == [realtime_config |-> FALSE]

\* hardware/Drivers.py builds these requests without a response: lines 359-366
\* and 391 (motion command only), 430, 436 and 442 (realtime config only).
SharesResponse(request) ==
    /\ request.response = ResponseDefault
    /\ request.control_word = None
    /\ request.MC_interface # "nil"

\* translate_response, line 121: the descriptor of the request is written
MarkRealtime(s, request) ==
    IF SharesResponse(request)
    THEN [s EXCEPT !.realtime_config = request.realtime_config # "none"]
    ELSE s

\* bit b of the unsigned integer w
Bit(w, b) == (w \div (2 ^ b)) % 2 = 1

\* The warn word bits with a name and a meaning (Responses.py, case "warn_word").
DefinedWarnBits == {0, 1, 2, 3, 4, 6, 7, 8, 9, 10, 11, 12, 14, 15}

RECURSIVE DecodeWarnFrom(_, _)
DecodeWarnFrom(w, b) ==
    IF b > 15 THEN <<>>
    ELSE (IF b \in DefinedWarnBits /\ Bit(w, b) THEN <<b>> ELSE <<>>) \o DecodeWarnFrom(w, b + 1)

\* translate_response, case "warn_word": one entry per defined set bit, ascending.
DecodeWarnWord(w) == DecodeWarnFrom(w, 0)

\* bool(sub_state & (1 << n)) as 1 (True) or 0 (False)
Flag(sub, n) == IF Bit(sub, n) THEN 1 ELSE 0

\* a decoding that takes every flag one bit too low
DecodeStateVarShifted(sv) ==
    LET sub == sv[1]
        main == sv[2]
    IN [main_state |-> main,
        MC_count |-> IF main = 8 THEN sub % 16 ELSE None,
        event_handler_active |-> IF main = 8 THEN Flag(sub, 3) ELSE None,
        motion_active |-> IF main = 8 THEN Flag(sub, 4) ELSE None,
        in_target_position |-> IF main = 8 THEN Flag(sub, 5) ELSE None,
        homed |-> IF main = 8 THEN Flag(sub, 6) ELSE None,
        homing_finished |-> IF main = 9 THEN (IF sub = 15 THEN 1 ELSE 0) ELSE None,
        error_code |-> IF main \in {3, 4} THEN sub ELSE None]

\* translate_response, case "state_var": <<sub_state, main_state>> -> State_Var.
\* Absent fields are None; the booleans are 1 (True), 0 (False) or None.
DecodeStateVar(sv) ==
    LET sub == sv[1]
        main == sv[2]
    IN [main_state |-> main,
        MC_count |-> IF main = 8 THEN sub % 16 ELSE None,
        event_handler_active |-> IF main = 8 THEN Flag(sub, 4) ELSE None,
        motion_active |-> IF main = 8 THEN Flag(sub, 5) ELSE None,
        in_target_position |-> IF main = 8 THEN Flag(sub, 6) ELSE None,
        homed |-> IF main = 8 THEN Flag(sub, 7) ELSE None,
        homing_finished |-> IF main = 9 THEN (IF sub = 15 THEN 1 ELSE 0) ELSE None,
        error_code |-> IF main \in {3, 4} THEN sub ELSE None]

NoStateVar ==
    [main_state |-> None, MC_count |-> None, event_handler_active |-> None,
     motion_active |-> None, in_target_position |-> None, homed |-> None,
     homing_finished |-> None, error_code |-> None]

\* Response.translate_response: only the fields of the descriptor are decoded;
\* realtime_config is decoded whenever the request carried a realtime config.
TranslateResponse(request, raw) ==
    [state_var |-> IF request.response.state_var THEN DecodeStateVar(raw.state_var) ELSE NoStateVar,
     has_warn_word |-> request.response.warn_word,
     warn_word |-> IF request.response.warn_word THEN DecodeWarnWord(raw.warn_word) ELSE <<>>,
     error_code |-> IF request.response.error_code THEN raw.error_code ELSE None,
     command_count |-> IF request.realtime_config # "none" THEN raw.command_count ELSE None]

(***************************************************************************)
(* Driver objects, worker threads and what is observed of them.            *)
(***************************************************************************)
\* Driver.__init__, lines 47-57
DriverInit ==
    [MC_count |-> 0, MC_count_up_to_date |-> FALSE,
     realtime_config_command_count |-> 0, realtime_config_count_up_to_date |-> FALSE,
     send_attempt |-> 1, awaiting_error_acknowledgement |-> FALSE,
     warning_words |-> <<>>, stream_type |-> "unset"]

NoTask ==
    [kind |-> "none", id |-> 0, held |-> TRUE, position |-> "none", velocity |-> 0,
     acceleration |-> 0, vector |-> FALSE, overwrite |-> FALSE, stream_type |-> "unset"]

\* The worker thread: blocked in queue.get ("idle") or in datagram.recieve
\* ("recv"); "done" marks a task whose method has returned or raised within
\* the current step.
WorkerInit ==
    [status |-> "idle", task |-> NoTask, pc |-> "none",
     request |-> NoRequest, outer |-> NoRequest, inner |-> "none",
     error_code |-> None, main_state |-> None, polls |-> 0, elapsed |-> FALSE,
     rounds |-> 0, result |-> "none", exc |-> "none", exc_code |-> None]

NoDone ==
    [kind |-> "none", id |-> 0, skipped |-> FALSE, result |-> "none",
     exc |-> "none", exc_code |-> None, error_code |-> None, call_tx |-> 0,
     sent_MC |-> FALSE]

\* a call of send with a motion command: the wire MC_count of its latest
\* transmission and the number of its transmissions
NoMotion == [MC |-> None, tx |-> 0]

\* a decoded response: the task send was called by and the error_code field
NoResponse == [task |-> 0, kind |-> "none", error_code |-> None]

\* a call of home or switch_on: the state_var send returned to it first and
\* last, and the control words of its calls of send
NoTrace ==
    [task |-> 0, kind |-> "none", overwrite |-> FALSE, first |-> NoStateVar,
     last |-> NoStateVar, cws |-> <<>>]

ObsInit ==
    [task_tx |-> 0,             \* datagrams transmitted by the running task
     call_tx |-> 0,             \* transmissions of the current call of send
     first_MC |-> None, last_MC |-> None,   \* wire MC_count of its first / latest transmission
     first_rt |-> None, last_rt |-> None,   \* wire rt_count of its first / latest transmission
     last_motion |-> "none",    \* the latest motion command on the wire
     motion |-> NoMotion,       \* the latest call of send with a motion command
     prev |-> NoMotion,         \* the call of send with a motion command before it
     response |-> NoResponse,   \* the latest response send has decoded
     trace |-> NoTrace,         \* what the task started last was told and has sent
     task_MC |-> FALSE,         \* the running task has transmitted a motion command
     handled |-> FALSE,         \* the latest response carried a warn_word
     reported |-> {},           \* the defined bits of that warn_word
     log_added |-> <<>>,        \* bits logged as added by the latest handler run
     log_cleared |-> <<>>,      \* bits logged as cleared by the latest handler run
     before |-> <<>>,           \* warning_words before the latest response
     running |-> {},            \* ids of the tasks started and not yet resolved
     done |-> NoDone]           \* the task that has just resolved

Range(s) == {s[i] : i \in 1..Len(s)}

RemoveAt(s, i) == SubSeq(s, 1, i - 1) \o SubSeq(s, i + 1, Len(s))

SelectNotIn(s, S) == SelectSeq(s, LAMBDA b : b \notin S)

\* _warning_handler, lines 335-338: append the reported warnings not yet stored.
InsertNewWarnings(stored, reported) ==
    stored \o SelectNotIn(reported, Range(stored))

\* _warning_handler, lines 341-344: "for i, w in enumerate(self.warning_words)"
\* pops from the list it iterates; the list iterator advances its index i even
\* when the element at i has just been removed.  Returns <<list, cleared log>>.
RECURSIVE RemoveLifted(_, _, _, _)
RemoveLifted(stored, i, new_bits, cleared) ==
    IF i > Len(stored) THEN <<stored, cleared>>
    ELSE IF stored[i] \notin new_bits
         THEN RemoveLifted(RemoveAt(stored, i), i + 1, new_bits, Append(cleared, stored[i]))
         ELSE RemoveLifted(stored, i + 1, new_bits, cleared)

\* Driver._warning_handler
WarningHandler(c, tr) ==
    IF ~tr.has_warn_word
    THEN [c EXCEPT !.O.handled = FALSE, !.O.before = c.D.warning_words,
                   !.O.log_added = <<>>, !.O.log_cleared = <<>>]
    ELSE LET stored == c.D.warning_words
             inserted == InsertNewWarnings(stored, tr.warn_word)
             removed == RemoveLifted(inserted, 1, Range(tr.warn_word), <<>>)
         IN [c EXCEPT !.D.warning_words = removed[1],
                      !.O.handled = TRUE, !.O.before = stored,
                      !.O.reported = Range(tr.warn_word),
                      !.O.log_added = SelectNotIn(tr.warn_word, Range(stored)),
                      !.O.log_cleared = removed[2]]

\* The method of the task has returned: line 77 will set the result.
TaskReturn(c, result) ==
    [c EXCEPT !.W.status = "done", !.W.result = result, !.W.exc = "none",
              !.W.inner = "none", !.W.outer = NoRequest]

\* The method of the task has raised: line 75 will set the exception.
TaskRaise(c, exc, code) ==
    [c EXCEPT !.W.status = "done", !.W.result = "none", !.W.exc = exc,
              !.W.exc_code = code, !.W.inner = "none", !.W.outer = NoRequest]

\* the count a byte-wide field would carry
MappedCountByte(count) == count % 256

\* line 130: "& 0xF"
MappedCount(count) == count % 16

\* Driver.send, lines 130-144: pack with the mapped counts, transmit, block in recieve.
\* fresh is FALSE for the transmissions of the recursive call of line 167.
SendTransmit(c, request, fresh) ==
    LET mc == IF request.MC_interface # "none" THEN MappedCount(c.D.MC_count) ELSE None
        rt == IF request.realtime_config # "none"
              THEN MappedCount(c.D.realtime_config_command_count) ELSE None
    IN [c EXCEPT !.W.status = "recv", !.W.request = request,
                 !.O.task_tx = @ + 1,
                 !.O.call_tx = IF fresh THEN 1 ELSE @ + 1,
                 !.O.first_MC = IF fresh THEN mc ELSE @, !.O.last_MC = mc,
                 !.O.first_rt = IF fresh THEN rt ELSE @, !.O.last_rt = rt,
                 !.O.last_motion = IF request.MC_interface # "none"
                                   THEN request.MC_interface ELSE @,
                 !.O.prev = IF mc # None /\ fresh THEN c.O.motion ELSE @,
                 !.O.motion = IF mc = None THEN @
                              ELSE [MC |-> mc, tx |-> IF fresh THEN 1 ELSE @.tx + 1],
                 !.O.task_MC = @ \/ request.MC_interface # "none",
                 !.O.trace.cws = IF fresh /\ request.control_word # None /\ c.O.trace.task # 0
                                 THEN Append(@, request.control_word)
                                 ELSE @]

\* Driver.send, lines 123-127.  The freshness flag is set before the count is
\* queried by get_realtime_config_command_count, which is guarded (returns None
\* while awaiting acknowledgement, and "None += 1" raises TypeError) and whose
\* own send finds the flag set and so increments the count before transmitting.
\* No task catches TypeError.
SendRealtimePart(c, request, fresh) ==
    IF request.realtime_config = "none" THEN SendTransmit(c, request, fresh)
    ELSE IF ~c.D.realtime_config_count_up_to_date
    THEN LET c1 == [c EXCEPT !.D.realtime_config_count_up_to_date = TRUE]
         IN IF c1.D.awaiting_error_acknowledgement
            THEN TaskRaise([c1 EXCEPT !.D.realtime_config_command_count = None],
                           "TypeError", None)
            ELSE SendTransmit([c1 EXCEPT !.W.outer = request, !.W.inner = "RT",
                                          !.D.realtime_config_command_count = @ + 1],
                              RtCountQuery, TRUE)
    ELSE SendTransmit([c EXCEPT !.D.realtime_config_command_count = @ + 1], request, fresh)

\* Driver.send, lines 117-121, then the rest of send.  When MC_count is not up
\* to date, get_MC_count sends the state query first (a nested call of send).
SendFrom(c, request, fresh) ==
    IF request.MC_interface = "none" THEN SendRealtimePart(c, request, fresh)
    ELSE IF ~c.D.MC_count_up_to_date
    THEN SendTransmit([c EXCEPT !.W.outer = request, !.W.inner = "MC"], StateQuery, TRUE)
    ELSE SendRealtimePart([c EXCEPT !.D.MC_count = @ + 1], request, fresh)

\* A call of Driver.send from a task.
Send(c, request) == SendFrom(c, request, TRUE)

(***************************************************************************)
(* The queued methods of Driver, from one call of send to the next.        *)
(* pc names the call of send whose result the task is waiting for.         *)
(***************************************************************************)
At(c, pc) == [c EXCEPT !.W.pc = pc]

\* a wait_for_change that gives up at the first check that fails
TimedOutAtOnce(c) == TRUE

\* wait_for_change, line 301: the time measured in the previous round has
\* reached the timeout (it has not in the first round, for a timeout > 0).
TimedOut(c) == c.W.elapsed

\* wait_for_change, lines 303-304: measure the time and sleep.  tick tells
\* whether the timeout has elapsed by now; it has after MaxPolls rounds.
Delay(c, tick) ==
    [c EXCEPT !.W.polls = @ + 1, !.W.elapsed = tick \/ c.W.polls + 1 >= MaxPolls]

StartWait(c) == [c EXCEPT !.W.polls = 0, !.W.elapsed = FALSE]

\* a check of the main state that get_main_state has just returned
HomeStateQueried(c, tr) == tr.state_var.main_state

\* Driver.home, line 217: the main state of the state_var of line 210; the
\* value get_main_state returned on line 216 only goes into the log
HomeState(c, tr) == c.W.main_state

\* a home that finalizes with (switch_on) after a timeout as well
HomeContinueFinalizing(c, tr, tick) ==
    CASE c.W.pc = "home_state" ->
            IF tr.state_var.homed = 1 /\ ~c.W.task.overwrite
            THEN TaskReturn(c, "True")
            ELSE Send([At(c, "home_main_state") EXCEPT
                          !.W.main_state = tr.state_var.main_state], StateQuery)
      [] c.W.pc = "home_main_state" ->
            IF HomeState(c, tr) # 8
            THEN TaskReturn(c, "False")
            ELSE Send(At(c, "home_request"), ControlRequest(CW_switch_on_home))
      [] c.W.pc = "home_request" ->
            Send(StartWait(At(c, "home_poll")), StateQuery)
      [] c.W.pc = "home_poll" ->
            IF tr.state_var.homing_finished = 1
            THEN Send(At(c, "home_off"), ControlRequest(CW_switch_on))
            ELSE IF TimedOut(c)
            THEN Send(At(c, "home_abort"), ControlRequest(CW_switch_on))
            ELSE Send(Delay(c, tick), StateQuery)
      [] c.W.pc = "home_off" -> TaskReturn(c, "True")
      [] OTHER -> TaskReturn(c, "False")     \* "home_abort"

\* Driver.home, lines 207-237
HomeContinue(c, tr, tick) ==
    CASE c.W.pc = "home_state" ->
            IF tr.state_var.homed = 1 /\ ~c.W.task.overwrite
            THEN TaskReturn(c, "True")
            ELSE Send([At(c, "home_main_state") EXCEPT
                          !.W.main_state = tr.state_var.main_state], StateQuery)
      [] c.W.pc = "home_main_state" ->
            IF HomeState(c, tr) # 8
            THEN TaskReturn(c, "False")
            ELSE Send(At(c, "home_request"), ControlRequest(CW_switch_on_home))
      [] c.W.pc = "home_request" ->
            Send(StartWait(At(c, "home_poll")), StateQuery)
      [] c.W.pc = "home_poll" ->
            IF tr.state_var.homing_finished = 1
            THEN Send(At(c, "home_off"), ControlRequest(CW_switch_on))
            ELSE IF TimedOut(c)
            THEN Send(At(c, "home_abort"), ControlRequest(CW_zero))
            ELSE Send(Delay(c, tick), StateQuery)
      [] c.W.pc = "home_off" -> TaskReturn(c, "True")
      [] OTHER -> TaskReturn(c, "False")     \* "home_abort"

\* a switch_on that asks for state 2 only from the states below it
BelowReady(main_state) == main_state < 2

\* Driver.switch_on, line 260
NotReady(main_state) == main_state # 2

\* Driver.switch_on, lines 255-283
SwitchOnContinue(c, tr, tick) ==
    LET main_state == tr.state_var.main_state
    IN CASE c.W.pc = "on_state" ->
            IF main_state = 8 THEN TaskReturn(c, "True")
            ELSE IF NotReady(main_state)
            THEN Send(At(c, "on_request_2"), ControlRequest(CW_zero))
            ELSE Send(At(c, "on_request_8"), ControlRequest(CW_switch_on))
      [] c.W.pc = "on_request_2" ->
            Send(StartWait(At(c, "on_poll_2")), StateQuery)
      [] c.W.pc = "on_poll_2" ->
            IF main_state = 2 THEN Send(At(c, "on_state_2"), StateQuery)
            ELSE IF TimedOut(c) THEN Send(At(c, "on_failed"), StateQuery)
            ELSE Send(Delay(c, tick), StateQuery)
      [] c.W.pc = "on_state_2" ->
            IF main_state = 2
            THEN Send(At(c, "on_request_8"), ControlRequest(CW_switch_on))
            ELSE TaskReturn(c, "None")
      [] c.W.pc = "on_request_8" ->
            Send(StartWait(At(c, "on_poll_8")), StateQuery)
      [] c.W.pc = "on_poll_8" ->
            IF main_state = 8 THEN TaskReturn(c, "True")
            ELSE IF TimedOut(c) THEN Send(At(c, "on_failed"), StateQuery)
            ELSE Send(Delay(c, tick), StateQuery)
      [] OTHER -> TaskReturn(c, "False")     \* "on_failed": the state was read for the log

\* Driver.acknowledge_error, lines 402-409, with the error code read by the
\* first query (returned by send, or carried by the DriveError it raised).
AckAfterQuery(c, error_code) ==
    IF error_code = None \/ error_code = 0
    THEN TaskReturn([c EXCEPT !.W.error_code = error_code], "None")
    ELSE Send([At(c, "ack_command") EXCEPT !.W.error_code = error_code], AckCommand)

\* an acknowledge_error that goes on as long as the drive reports an error,
\* be it the one it has just acknowledged
AckAfterRereadInsisting(c, new_error_code) ==
    IF new_error_code # None /\ new_error_code # 0
    THEN Send([At(c, "ack_command") EXCEPT !.W.error_code = new_error_code,
                                           !.W.rounds = @ + 1], AckCommand)
    ELSE TaskReturn([c EXCEPT !.W.error_code = new_error_code,
                              !.D.awaiting_error_acknowledgement = FALSE], "None")

\* Driver.acknowledge_error, lines 416-424, with the error code read again.
AckAfterReread(c, new_error_code) ==
    IF new_error_code = c.W.error_code
    THEN TaskReturn(c, "None")
    ELSE IF new_error_code # None /\ new_error_code # 0
    THEN Send([At(c, "ack_command") EXCEPT !.W.error_code = new_error_code,
                                           !.W.rounds = @ + 1], AckCommand)
    ELSE TaskReturn([c EXCEPT !.W.error_code = new_error_code,
                              !.D.awaiting_error_acknowledgement = FALSE], "None")

AckContinue(c, tr) ==
    CASE c.W.pc = "ack_query" -> AckAfterQuery(c, tr.error_code)
      [] c.W.pc = "ack_command" -> Send(At(c, "ack_reread"), AckReread)
      [] OTHER -> AckAfterReread(c, tr.error_code)       \* "ack_reread"

StreamTypes == {"P", "PV", "PVA"}

\* Driver.initialize_stream, lines 356-368, after get_main_state has returned.
InitializeStreamContinue(c) ==
    LET c1 == [c EXCEPT !.D.stream_type = c.W.task.stream_type]
    IN IF c.W.task.stream_type \in StreamTypes
       THEN TaskReturn(c1, "None")
       ELSE TaskRaise(c1, "ValueError", None)

\* send has returned to the method of the running task.
TaskContinue(c, tr, tick) ==
    CASE c.W.task.kind = "home" -> HomeContinue(c, tr, tick)
      [] c.W.task.kind = "switch_on" -> SwitchOnContinue(c, tr, tick)
      [] c.W.task.kind = "acknowledge_error" -> AckContinue(c, tr)
      [] c.W.task.kind = "initialize_stream" -> InitializeStreamContinue(c)
      [] c.W.task.kind \in {"stream", "stop_stream"} -> TaskReturn(c, "None")
      [] OTHER -> TaskReturn(c, "value")

\* Driver.move_with_constant_velocity, lines 448-457
ConstantVelocityCommand(velocity, acceleration) ==
    IF velocity > 0 /\ acceleration > 0 THEN "AccVAI_Infinite_Motion_Positive_Direction"
    ELSE IF velocity < 0 /\ acceleration > 0 THEN "AccVAI_Infinite_Motion_Negative_Direction"
    ELSE IF velocity > 0 /\ acceleration < 0 THEN "AccVAI_Infinite_Motion_Positive_Direction"
    ELSE IF velocity < 0 /\ acceleration < 0 THEN "AccVAI_Infinite_Motion_Negative_Direction"
    ELSE "VAI_Stop"

\* initialize_stream, lines 357-366: the motion command of stream_request
StreamCommand(stream_type) ==
    CASE stream_type = "P" -> "P_Stream_With_Slave_Generated_Time_Stamp_and_Configured_Period_Time"
      [] stream_type = "PV" -> "PV_Stream_With_Slave_Generated_Time_Stamp"
      [] OTHER -> "PVA_Stream_With_Slave_Generated_Time_Stamp_and_Configured_Period_Time"

\* Driver.stop_stream, line 391
StopStreamRequest == MotionRequest("Stop_Streaming")

\* The method of a task, from its first line to its first call of send.
TaskBody(c) ==
    LET task == c.W.task
    IN CASE task.kind = "home" -> Send(At(c, "home_state"), StateQuery)
         [] task.kind = "switch_on" -> Send(At(c, "on_state"), StateQuery)
         [] task.kind = "acknowledge_error" -> Send(At(c, "ack_query"), AckQuery)
         [] task.kind = "initialize_stream" -> Send(At(c, "last"), StateQuery)
         [] task.kind = "stream" ->
                IF c.D.stream_type = "unset" THEN TaskRaise(c, "AttributeError", None)
                ELSE IF c.D.stream_type \notin StreamTypes THEN TaskRaise(c, "ValueError", None)
                ELSE Send(At(c, "last"), MotionRequest(StreamCommand(c.D.stream_type)))
         [] task.kind = "stop_stream" -> Send(At(c, "last"), StopStreamRequest)
         [] task.kind = "move_with_constant_velocity" ->
                IF task.vector THEN TaskRaise(c, "TypeError", None)
                ELSE Send(At(c, "last"), MotionFeedbackRequest(
                              ConstantVelocityCommand(task.velocity, task.acceleration)))
         [] task.kind = "go_to_pos" ->
                IF task.velocity < 0 \/ task.acceleration < 0
                THEN TaskRaise(c, "ValueError", None)
                ELSE Send(At(c, "last"), MotionFeedbackRequest("VAI_go_to_pos"))
         [] OTHER -> Send(At(c, "last"), ReadRamRequest)  \* get_driver_time, get_status_word

\* The methods decorated with ignored_if_awaiting_error_acknowledgement.
GuardedKinds ==
    {"home", "switch_on", "initialize_stream", "stream", "stop_stream", "go_to_pos",
     "move_with_constant_velocity", "get_driver_time", "get_status_word"}

\* a guard that lets stop_stream through
IgnoredUnlessStop(kind, awaiting_error_acknowledgement) ==
    kind \in GuardedKinds \ {"stop_stream"} /\ awaiting_error_acknowledgement

\* ignored_if_awaiting_error_acknowledgement.wrapper, line 95
Ignored(kind, awaiting_error_acknowledgement) ==
    kind \in GuardedKinds /\ awaiting_error_acknowledgement

\* the methods that lead the drive through its state machine
Procedures == {"home", "switch_on"}

\* _run_method_queue, line 73: the worker calls the method it has taken.
TaskStart(c, task) ==
    LET c1 == [c EXCEPT !.W = [WorkerInit EXCEPT !.task = task],
                        !.O.running = @ \cup {task.id},
                        !.O.task_tx = 0, !.O.task_MC = FALSE, !.O.done = NoDone,
                        !.O.trace = IF task.kind \in Procedures
                                    THEN [NoTrace EXCEPT !.task = task.id, !.kind = task.kind,
                                                         !.overwrite = task.overwrite]
                                    ELSE NoTrace]
    IN IF Ignored(task.kind, c.D.awaiting_error_acknowledgement)
       THEN TaskReturn(At(c1, "ignored"), "None")
       ELSE TaskBody(c1)

(***************************************************************************)
(* Driver.send after datagram.recieve has returned or timed out.           *)
(***************************************************************************)
\* send has raised: only acknowledge_error catches, and only DriveError
\* (lines 398-401 and 410-413).
SendRaised(c, exc, code) ==
    LET c1 == [c EXCEPT !.W.inner = "none", !.W.outer = NoRequest]
    IN IF exc = "DriveError" /\ c.W.inner = "none" /\ c.W.pc = "ack_query"
       THEN AckAfterQuery(c1, code)
       ELSE IF exc = "DriveError" /\ c.W.inner = "none" /\ c.W.pc = "ack_reread"
       THEN AckAfterReread(c1, code)
       ELSE TaskRaise(c1, exc, code)

\* a get_MC_count that takes the last count of the cycle for a missing one
CountOrFifteen(MC_count) == IF MC_count # None THEN MC_count ELSE 15

\* get_MC_count, line 187
CountOrZero(MC_count) == IF MC_count # None THEN MC_count ELSE 0

\* send has returned tr: to get_MC_count (lines 119-121 follow), to
\* get_realtime_config_command_count (lines 126-127 follow) or to the task.
SendReturned(c, tr, tick) ==
    LET c1 == [c EXCEPT !.W.inner = "none", !.W.outer = NoRequest]
    IN CASE c.W.inner = "MC" ->
              SendRealtimePart([c1 EXCEPT !.D.MC_count = CountOrZero(tr.state_var.MC_count) + 1,
                                          !.D.MC_count_up_to_date = TRUE],
                               c.W.outer, TRUE)
         [] c.W.inner = "RT" ->
              SendTransmit([c1 EXCEPT !.D.realtime_config_command_count = tr.command_count + 1],
                           c.W.outer, TRUE)
         [] OTHER -> TaskContinue(c1, tr, tick)

\* line 160
ResetAttempt(send_attempt) == 1

\* the error handler of a drive whose codes up to 7 are notices
IsErrorAboveSeven(error_code) == error_code # None /\ error_code > 7

\* Driver._error_handler, line 309
IsError(error_code) == error_code # None /\ error_code # 0

\* line 162: send returns tr to the procedure whose trace is t
Told(t, request, tr) ==
    IF ~request.response.state_var \/ t.task = 0 THEN t
    ELSE [t EXCEPT !.first = IF @ = NoStateVar THEN tr.state_var ELSE @,
                   !.last = tr.state_var]

\* Driver.send, lines 147-162: translate, warning handler, error handler,
\* reset of the attempt counter, return.
OnResponse(c, raw, tick) ==
    LET tr == TranslateResponse(c.W.request, raw)
        c0 == [c EXCEPT !.O.response = [task |-> c.W.task.id, kind |-> c.W.task.kind,
                                        error_code |-> tr.error_code]]
        c1 == WarningHandler(c0, tr)
    IN IF IsError(tr.error_code)
       THEN SendRaised([c1 EXCEPT !.D.awaiting_error_acknowledgement = TRUE],
                       "DriveError", tr.error_code)
       ELSE SendReturned([c1 EXCEPT !.D.send_attempt = ResetAttempt(@),
                                    !.O.trace = Told(@, c.W.request, tr)], tr, tick)

\* a send that forgets the error of the drive when it gives up
OnTimeoutForgetting(c) ==
    IF c.D.send_attempt < max_send_attempts
    THEN SendFrom([c EXCEPT !.D.send_attempt = @ + 1], c.W.request, FALSE)
    ELSE SendRaised([c EXCEPT !.D.awaiting_error_acknowledgement = FALSE],
                    "TimeoutError", None)

\* Driver.send, lines 163-170: queue.Empty
OnTimeout(c) ==
    IF c.D.send_attempt < max_send_attempts
    THEN SendFrom([c EXCEPT !.D.send_attempt = @ + 1], c.W.request, FALSE)
    ELSE SendRaised(c, "TimeoutError", None)

(***************************************************************************)
(* The steps of the worker thread of drive d.                              *)
(***************************************************************************)
Config(d) == [D |-> driver[d], W |-> worker[d], O |-> obs[d]]

\* a future that keeps the result only
OutcomeResultOnly(w) ==
    IF ~w.task.held THEN "unread" ELSE w.result

\* What the future of a finished task holds: its result or its exception.
\* Nobody can read a future whose caller has not kept it.
Outcome(w) ==
    IF ~w.task.held THEN "unread" ELSE IF w.exc # "none" THEN w.exc ELSE w.result

DoneRecord(c) ==
    [kind |-> c.W.task.kind, id |-> c.W.task.id,
     skipped |-> c.W.pc = "ignored", result |-> c.W.result, exc |-> c.W.exc,
     exc_code |-> c.W.exc_code, error_code |-> c.W.error_code,
     call_tx |-> c.O.call_tx, sent_MC |-> c.O.task_MC]

\* The thread runs on to its next blocking point: datagram.recieve inside the
\* task, or queue.get after lines 75/77 have resolved the future of the task.
Commit(d, c) ==
    /\ driver' = [driver EXCEPT ![d] = c.D]
    /\ IF c.W.status = "done"
       THEN /\ worker' = [worker EXCEPT ![d] = WorkerInit]
            /\ future' = [future EXCEPT ![d][c.W.task.id] = Outcome(c.W)]
            /\ obs' = [obs EXCEPT ![d] = [c.O EXCEPT !.running = @ \ {c.W.task.id},
                                                     !.done = DoneRecord(c)]]
       ELSE /\ worker' = [worker EXCEPT ![d] = c.W]
            /\ future' = future
            /\ obs' = [obs EXCEPT ![d] = c.O]

\* _run_method_queue, lines 64-66: the thread asks for the next task only
\* after the method of the previous one has returned or raised.
WorkerReady(w) == w.status = "idle"

\* a queue that hands out the newest task first
QueueGetNewest(q) == q[Len(q)]

\* queue.Queue.get: first in, first out
QueueGet(q) == Head(q)

QueueRest(q, task) == SelectSeq(q, LAMBDA t : t.id # task.id)

\* _run_method_queue, lines 66-77: take a task and run its method
WorkerTake(d) ==
    /\ WorkerReady(worker[d])
    /\ queue[d] # <<>>
    /\ LET task == QueueGet(queue[d])
       IN /\ queue' = [queue EXCEPT ![d] = QueueRest(@, task)]
          /\ Commit(d, TaskStart(Config(d), task))
    /\ UNCHANGED <<ctl, shared, codec, net, follower, linmot>>

\* datagram.recieve returns the reply raw of the drive; tick: see Delay.
Receive(d, raw, tick) ==
    /\ worker[d].status = "recv"
    /\ Commit(d, OnResponse(Config(d), raw, tick))
    /\ shared' = MarkRealtime(shared, worker[d].request)
    /\ UNCHANGED <<queue, ctl, codec, net, follower, linmot>>

\* datagram.recieve raises queue.Empty after response_timeout
ReceiveTimeout(d) ==
    /\ worker[d].status = "recv"
    /\ Commit(d, OnTimeout(Config(d)))
    /\ UNCHANGED <<queue, ctl, shared, codec, net, follower, linmot>>

\* run_on_driver_thread.wrapper, lines 86-88: a new future, put on the queue
Put(q, f, task) ==
    [q |-> Append(q, [task EXCEPT !.id = Len(f) + 1]), f |-> Append(f, "pending")]

Task(kind) == [NoTask EXCEPT !.kind = kind]

(***************************************************************************)
(* The replies a drive may give to a request.                              *)
(***************************************************************************)
Raw(state_var, warn_word, error_code, command_count) ==
    [state_var |-> state_var, warn_word |-> warn_word, error_code |-> error_code,
     command_count |-> command_count]

\* command_count echoed in a realtime_config response
CommandCounts == {15}

Replies(request, states, warns, errors) ==
    {Raw(sv, ww, ec, cc) :
        sv \in (IF request.response.state_var THEN states ELSE {<<0, 0>>}),
        ww \in (IF request.response.warn_word THEN warns ELSE {0}),
        ec \in (IF request.response.error_code THEN errors ELSE {0}),
        cc \in (IF request.realtime_config # "none" THEN CommandCounts ELSE {0})}

\* After MaxAckRounds rounds of acknowledge_error the drive no longer comes up
\* with yet another error code.
Settled(w, raw) ==
    (w.pc = "ack_reread" /\ w.rounds >= MaxAckRounds) => raw.error_code \in {0, w.error_code}

\* The time matters only where wait_for_change measures it.
Ticks(w) == IF w.pc \in {"home_poll", "on_poll_2", "on_poll_8"} THEN BOOLEAN ELSE {FALSE}

\* The drive d answers the request its worker waits for.
DriveReplies(d, states, warns, errors) ==
    \E raw \in Replies(worker[d].request, states, warns, errors), tick \in Ticks(worker[d]) :
        Settled(worker[d], raw) /\ Receive(d, raw, tick)

\* Controller.__init__, line 141, and the main thread before its first call
IdleCtl ==
    [pc |-> "idle", op |-> "none", futures |-> [d \in Drives |-> 0],
     i |-> 0, join |-> "none", phase |-> "none", cycles |-> 0, calls |-> 0,
     stop_streaming |-> FALSE, max_cycles |-> None,
     velocity |-> [d \in Drives |-> 0], acceleration |-> [d \in Drives |-> 3],
     exc |-> "none"]

\* no call of the codec on its own
NoCall == [op |-> "none"]

\* the addresses datagrams come from: the drives and a host without driver
Addresses == Drives \cup {0}

\* a datagram as recvfrom returns it: the address it comes from and, for the
\* reply of a drive, the request and the attempt it answers
Datagram(addr, request, attempt) ==
    [addr |-> addr, request |-> request, attempt |-> attempt]

NoDatagram == Datagram(None, 0, 0)

\* linUDP.__init__, lines 12-17, with nothing on the wire (requests not yet
\* answered), and the worker of each drive before its first Driver.send
NetInit ==
    [response_queue |-> [a \in Addresses |-> <<>>], keys |-> {},
     wire |-> [d \in Drives |-> <<>>], strangers |-> 0,
     pc |-> [d \in Drives |-> "idle"],
     request |-> [d \in Drives |-> 0],
     send_attempt |-> [d \in Drives |-> 1],
     answer |-> [d \in Drives |-> [request |-> 0, response |-> NoDatagram]]]

\* no path follower
NoFollower == [out |-> "none"]

\* drives whose state machine is left open: they answer as the specification
\* in force lets them
NoLinMot == [d \in Drives |-> [main_state |-> None]]

InitDrive ==
    /\ driver = [d \in Drives |-> DriverInit]
    /\ worker = [d \in Drives |-> WorkerInit]
    /\ queue = [d \in Drives |-> <<>>]
    /\ future = [d \in Drives |-> <<>>]
    /\ obs = [d \in Drives |-> ObsInit]
    /\ ctl = IdleCtl
    /\ shared = SharedResponse
    /\ codec = NoCall
    /\ net = NetInit
    /\ follower = NoFollower
    /\ linmot = NoLinMot

\* a client thread calls a queued method of drive 1
Submit(task, max) ==
    /\ Len(future[1]) < max
    /\ LET p == Put(queue[1], future[1], task)
       IN /\ queue' = [queue EXCEPT ![1] = p.q]
          /\ future' = [future EXCEPT ![1] = p.f]
    /\ UNCHANGED <<driver, worker, obs, ctl, shared, codec, net, follower, linmot>>

MoveTask == [Task("move_with_constant_velocity") EXCEPT !.velocity = 1, !.acceleration = 1]

GoToPosTask == [Task("go_to_pos") EXCEPT !.velocity = 1, !.acceleration = 1]

InitializeStreamTask == [Task("initialize_stream") EXCEPT !.stream_type = "PV"]

(***************************************************************************)
(* SpecDrive: one drive and a client that calls a motion command, a        *)
(* realtime configuration and the acknowledgement of errors; the drive     *)
(* answers or not and reports errors.                                      *)
(***************************************************************************)
SendTasks == {MoveTask, Task("get_status_word"), Task("acknowledge_error")}

\* <<sub_state, main_state>>: ready to switch on; operation enabled, MC_count 15
DriveStateVars == {<<0, 2>>, <<15, 8>>}

DriveWarnWords == {0, 1}

ErrorCodes == {0, 7, 9}

NextDrive ==
    \/ \E task \in SendTasks : Submit(task, MaxSends)
    \/ WorkerTake(1)
    \/ DriveReplies(1, DriveStateVars, DriveWarnWords, ErrorCodes)
    \/ ReceiveTimeout(1)

SpecDrive == InitDrive /\ [][NextDrive]_vars

(***************************************************************************)
(* SpecWarn: the drive reports every combination of two warnings, with and *)
(* without an undefined bit, in any order.                                 *)
(***************************************************************************)
WarnTasks == {Task("get_status_word"), Task("acknowledge_error")}

\* bits 0, 1 and 2, and the undefined bit 5
WarnWords == {0, 1, 2, 3, 6, 7, 34}

NextWarn ==
    \/ \E task \in WarnTasks : Submit(task, MaxSends)
    \/ WorkerTake(1)
    \/ DriveReplies(1, {<<15, 8>>}, WarnWords, {0, 7})
    \/ ReceiveTimeout(1)

SpecWarn == InitDrive /\ [][NextWarn]_vars

(***************************************************************************)
(* SpecTasks: one drive and a client that calls any of the queued methods  *)
(* but home and switch_on, which SpecProcedures has.                       *)
(***************************************************************************)
ClientTasks ==
    {Task(k) : k \in {"acknowledge_error", "stream", "stop_stream",
                      "get_driver_time", "get_status_word"}}
    \cup {InitializeStreamTask, MoveTask, GoToPosTask}

NextTasks ==
    \/ \E task \in ClientTasks : Submit(task, MaxTasks)
    \/ WorkerTake(1)
    \/ DriveReplies(1, {<<0, 2>>, <<15, 8>>}, {0}, {0, 7})
    \/ ReceiveTimeout(1)

SpecTasks == InitDrive /\ [][NextTasks]_vars

(***************************************************************************)
(* The Controller (manipulator/control.py) on the main thread.             *)
(***************************************************************************)
Exceptions == {"DriveError", "TimeoutError", "TypeError", "ValueError", "AttributeError"}

\* "for i, driver in enumerate(self.drivers): ... driver.method(...)" for the
\* drivers in S: one task and one new future per driver.  keep: the future is
\* assigned to self.futures[i], which lets go of the future it held before.
Release(f, id, keep) ==
    IF keep /\ id # 0 /\ f[id] # "pending" THEN [f EXCEPT ![id] = "unread"] ELSE f

SubmitTo(S, keep, task) ==
    /\ queue' = [d \in Drives |->
                    IF d \in S
                    THEN Put(queue[d], future[d], [task[d] EXCEPT !.held = keep]).q
                    ELSE queue[d]]
    /\ future' = [d \in Drives |->
                    IF d \in S
                    THEN Put(queue[d], Release(future[d], ctl.futures[d], keep), task[d]).f
                    ELSE future[d]]

\* the futures returned by the calls of SubmitTo(Drives, TRUE, ...)
NewFutures == [d \in Drives |-> Len(future[d]) + 1]

\* _wait_for_response_on_all (swallow = TRUE: "except DriveError: continue") and
\* _read_from_futures (swallow = FALSE), from the i-th future on: result()
\* blocks on a pending future and raises the exception of a failed task.
RECURSIVE JoinFrom(_, _, _)
JoinFrom(futures, i, swallow) ==
    IF i > Len(DriveOrder) THEN [state |-> "joined", i |-> i, exc |-> "none"]
    ELSE LET f == future[DriveOrder[i]][futures[DriveOrder[i]]]
         IN IF f = "pending" THEN [state |-> "blocked", i |-> i, exc |-> "none"]
            ELSE IF f \in Exceptions /\ ~(swallow /\ f = "DriveError")
            THEN [state |-> "raised", i |-> i, exc |-> f]
            ELSE JoinFrom(futures, i + 1, swallow)

Results(futures) == {future[d][futures[d]] : d \in Drives}

\* "np.array(self._read_from_futures()).T", unpacked into positions and
\* velocities: works for (position, velocity) pairs; a None among pairs (the
\* task of a drive was skipped) makes the array ragged, which numpy rejects;
\* Nones only unpack if there are exactly two of them.
Unpacks(results) ==
    \/ results = {"value"}
    \/ results = {"None"} /\ Len(DriveOrder) = 2

Returned(c) == [c EXCEPT !.pc = "returned", !.exc = "none"]

Raised(c, exc) == [c EXCEPT !.pc = "raised", !.exc = exc]

Waiting(c, join, phase) ==
    [c EXCEPT !.pc = "wait", !.i = 1, !.join = join, !.phase = phase, !.futures = NewFutures]

\* the application calls an operation of the controller
Called(op) == [IdleCtl EXCEPT !.op = op]

CanCall == ctl.pc = "idle"

ConstantVelocityTask(velocity, acceleration) ==
    [Task("move_with_constant_velocity") EXCEPT !.velocity = velocity,
                                                 !.acceleration = acceleration]

\* the per-drive velocities a caller or the stepper asks for (their signs)
Velocities == {[d \in Drives |-> 1], [d \in Drives |-> IF d = 1 THEN -1 ELSE 0]}

\* Controller.move_all_with_constant_velocity, lines 193-199 (acceleration 10.0)
CallMoveAll(velocity) ==
    /\ CanCall
    /\ SubmitTo(Drives, TRUE, [d \in Drives |-> ConstantVelocityTask(velocity[d], 10)])
    /\ ctl' = Waiting(Called("move_all_with_constant_velocity"), "read", "none")
    /\ UNCHANGED <<driver, worker, obs, shared, codec, net, follower, linmot>>

PositionTask(position, velocity, acceleration) ==
    [Task("go_to_pos") EXCEPT !.position = position, !.velocity = velocity,
                              !.acceleration = acceleration]

\* Controller.go_to_pos, lines 204-205, called with a position inside the stroke
CallGoToPos(velocity) ==
    /\ CanCall
    /\ SubmitTo(Drives, TRUE, [d \in Drives |-> PositionTask("inside", velocity[d], 1)])
    /\ ctl' = Waiting(Called("go_to_pos"), "read", "none")
    /\ UNCHANGED <<driver, worker, obs, shared, codec, net, follower, linmot>>

\* Controller.start_stream, lines 171-174, with a stream of type PV
CallStartStream ==
    /\ CanCall
    /\ SubmitTo(Drives, TRUE, [d \in Drives |-> InitializeStreamTask])
    /\ ctl' = Waiting(Called("start_stream"), "all", "initialize")
    /\ UNCHANGED <<driver, worker, obs, shared, codec, net, follower, linmot>>

Abs(x) == IF x < 0 THEN -x ELSE x

\* a loop that sends a drive at rest to the lower end of its stroke
FeedbackTaskAtZero(velocity, acceleration) ==
    PositionTask(IF velocity <= 0 THEN "min_pos" ELSE "max_pos", Abs(velocity),
                 Abs(acceleration))

\* Controller.feedback_loop, lines 222-229: the go_to_pos of a cycle
FeedbackTask(velocity, acceleration) ==
    PositionTask(IF velocity < 0 THEN "min_pos" ELSE "max_pos", Abs(velocity),
                 Abs(acceleration))

\* Controller.feedback_loop, lines 210-229: the first cycle, with the
\* velocity 0 and the acceleration 3 of lines 213-214
CallFeedbackLoop(max_cycles) ==
    /\ CanCall
    /\ SubmitTo(Drives, TRUE,
                [d \in Drives |-> FeedbackTask(IdleCtl.velocity[d], IdleCtl.acceleration[d])])
    /\ ctl' = Waiting([Called("feedback_loop") EXCEPT !.max_cycles = max_cycles],
                      "read", "go_to_pos")
    /\ UNCHANGED <<driver, worker, obs, shared, codec, net, follower, linmot>>

\* Controller.feedback_loop, lines 262-272: the handler submits the stop to the
\* first driver, with a list as velocity, and raises e1 inside the for loop;
\* the inner handler raises it again.
HandlerDrives == {DriveOrder[1]}

FeedbackHandler(c, e1) ==
    /\ SubmitTo(HandlerDrives, FALSE,
                [d \in Drives |-> [Task("move_with_constant_velocity") EXCEPT !.vector = TRUE]])
    /\ ctl' = Raised(c, e1)

\* a stop that reaches the first driver only
FeedbackStopFirst(c) ==
    /\ SubmitTo({DriveOrder[1]}, TRUE, [d \in Drives |-> ConstantVelocityTask(0, 10)])
    /\ ctl' = Waiting(c, "read", "stop")

\* Controller.feedback_loop, lines 245 and 259: stop all drives, then return
FeedbackStop(c) ==
    /\ SubmitTo(Drives, TRUE, [d \in Drives |-> ConstantVelocityTask(0, 10)])
    /\ ctl' = Waiting(c, "read", "stop")

\* Controller.feedback_loop, lines 232-260, after go_to_pos has returned:
\* the stepper raises, reports the path complete, or returns the next velocity.
\* calls counts the calls of the stepper (line 232); next is what it returned,
\* of which line 233 keeps the absolute value of the acceleration.
FeedbackStep(c, step, next) ==
    LET cycle_count == c.cycles + 1
        s == [c EXCEPT !.calls = @ + 1]
        n == [s EXCEPT !.cycles = cycle_count, !.velocity = next.velocity,
                       !.acceleration = [d \in Drives |-> Abs(next.acceleration[d])]]
    IN IF ~Unpacks(Results(c.futures)) THEN FeedbackHandler(c, "ValueError")
       ELSE IF step = "raise" THEN FeedbackHandler(s, "StepperError")
       ELSE IF step = "complete" THEN FeedbackStop(s)
       ELSE IF c.max_cycles # None /\ cycle_count > c.max_cycles THEN FeedbackStop(n)
       ELSE /\ SubmitTo(Drives, TRUE,
                        [d \in Drives |-> FeedbackTask(n.velocity[d], n.acceleration[d])])
            /\ ctl' = Waiting(n, "read", "go_to_pos")

\* Controller.start_stream, lines 180-186: one cycle up to its sleep.  The
\* futures of the stream tasks are dropped; _wait_for_response_on_all reads
\* self.futures, which still holds the futures of initialize_stream.
StreamCycle(c, stop_streaming) ==
    LET join == JoinFrom(c.futures, 1, TRUE)
    IN /\ SubmitTo(Drives, FALSE, [d \in Drives |-> Task("stream")])
       /\ ctl' = IF join.state = "raised" THEN Raised(c, join.exc)
                 ELSE [c EXCEPT !.pc = "sleep", !.phase = "stream", !.cycles = @ + 1,
                                !.stop_streaming = stop_streaming]

\* a stop that reaches the first driver only
StreamStopFirst(c) ==
    /\ SubmitTo({DriveOrder[1]}, FALSE, [d \in Drives |-> Task("stop_stream")])
    /\ ctl' = Returned(c)

\* Controller.start_stream, lines 189-190
StreamStop(c) ==
    /\ SubmitTo(Drives, FALSE, [d \in Drives |-> Task("stop_stream")])
    /\ ctl' = Returned(c)

\* a stream ends after MaxCycles tuples at the latest; a stepper has the path
\* completed or fails in cycle MaxCycles at the latest, unless the loop was
\* called with max_cycles, which then ends it
StopFlags == IF ctl.cycles + 1 >= MaxCycles THEN {TRUE} ELSE BOOLEAN

\* the velocities and accelerations a stepper returns (their signs)
StepperOutputs ==
    {[velocity |-> [d \in Drives |-> 1], acceleration |-> [d \in Drives |-> 1]],
     [velocity |-> [d \in Drives |-> IF d = 1 THEN -1 ELSE 0],
      acceleration |-> [d \in Drives |-> -2]]}

Steps == IF ctl.max_cycles = None /\ ctl.cycles + 1 >= MaxCycles THEN {"raise", "complete"}
         ELSE {"raise", "complete", "continue"}

\* the main thread has read every future it waited for
Joined(c) ==
    CASE c.op = "start_stream" ->
            \E stop_streaming \in StopFlags : StreamCycle(c, stop_streaming)
      [] c.op = "feedback_loop" /\ c.phase = "go_to_pos" ->
            \E step \in Steps, next \in StepperOutputs : FeedbackStep(c, step, next)
      [] c.op = "feedback_loop" /\ c.phase = "stop" ->
            IF Unpacks(Results(c.futures))
            THEN ctl' = Returned(c) /\ UNCHANGED <<queue, future>>
            ELSE FeedbackHandler(c, "ValueError")
      [] c.op = "move_all_with_constant_velocity" ->
            /\ ctl' = IF Unpacks(Results(c.futures)) THEN Returned(c)
                      ELSE Raised(c, "ValueError")
            /\ UNCHANGED <<queue, future>>
      [] OTHER -> ctl' = Returned(c) /\ UNCHANGED <<queue, future>>

\* Future.result() returns or raises: the main thread runs on to the next
\* pending future, to the end of the operation or to its next sleep.
Join ==
    /\ ctl.pc = "wait"
    /\ LET join == JoinFrom(ctl.futures, ctl.i, ctl.join = "all")
       IN /\ join.state # "blocked"
          /\ IF join.state = "raised"
             THEN IF ctl.op = "feedback_loop"
                  THEN FeedbackHandler(ctl, join.exc)
                  ELSE ctl' = Raised(ctl, join.exc) /\ UNCHANGED <<queue, future>>
             ELSE Joined(ctl)
    /\ UNCHANGED <<driver, worker, obs, shared, codec, net, follower, linmot>>

\* a pending future keeps the main thread blocked, at that future
JoinBlocked ==
    /\ ctl.pc = "wait"
    /\ LET join == JoinFrom(ctl.futures, ctl.i, ctl.join = "all")
       IN /\ join.state = "blocked"
          /\ join.i # ctl.i
          /\ ctl' = [ctl EXCEPT !.i = join.i]
    /\ UNCHANGED <<driver, worker, queue, future, obs, shared, codec, net, follower, linmot>>

\* Controller.start_stream, lines 185-190 and 179-184: the sleep is over
StreamWake ==
    /\ ctl.pc = "sleep"
    /\ IF ctl.stop_streaming THEN StreamStop(ctl)
       ELSE \E stop_streaming \in StopFlags : StreamCycle(ctl, stop_streaming)
    /\ UNCHANGED <<driver, worker, obs, shared, codec, net, follower, linmot>>

(***************************************************************************)
(* SpecStream: one call of Controller.start_stream; a drive answers or     *)
(* not and may report an error.                                            *)
(***************************************************************************)
CtlDrive(d) ==
    \/ WorkerTake(d)
    \/ DriveReplies(d, {<<15, 8>>}, {0}, {0, 7})
    \/ ReceiveTimeout(d)

NextStream ==
    \/ CallStartStream
    \/ Join
    \/ JoinBlocked
    \/ StreamWake
    \/ \E d \in Drives : CtlDrive(d)

SpecStream == InitDrive /\ [][NextStream]_vars

(***************************************************************************)
(* SpecMove: one call of Controller.move_all_with_constant_velocity, of    *)
(* Controller.go_to_pos or of Controller.feedback_loop.                    *)
(***************************************************************************)
NextMove ==
    \/ \E velocity \in Velocities : CallMoveAll(velocity)
    \/ \E velocity \in Velocities : CallGoToPos(velocity)
    \/ \E max_cycles \in {None, 1} : CallFeedbackLoop(max_cycles)
    \/ Join
    \/ JoinBlocked
    \/ \E d \in Drives : CtlDrive(d)

SpecMove == InitDrive /\ [][NextMove]_vars

(***************************************************************************)
(* Properties of the drive worker.                                         *)
(***************************************************************************)
\* C1: within one call of send, every retransmission of the request carries
\* the MC_count (resp. rt_count) of the first transmission of that call.
C1_RetryKeepsCount ==
    \A d \in Drives :
        obs[d].call_tx >= 1 =>
            /\ obs[d].last_MC = obs[d].first_MC
            /\ obs[d].last_rt = obs[d].first_rt

\* C2: a call of send transmits its request at most max_send_attempts times,
\* and a call that ends in TimeoutError has transmitted it exactly
\* max_send_attempts times, whatever the earlier calls of send ended in.
C2_AttemptBudget ==
    \A d \in Drives :
        /\ obs[d].call_tx <= max_send_attempts
        /\ obs[d].done.exc = "TimeoutError" => obs[d].done.call_tx = max_send_attempts

\* C3: after a response with a warn_word the stored warnings are the defined
\* bits of that warn_word, every bit that became set is logged once as added
\* and every bit that became clear once as cleared; a response without
\* warn_word leaves the stored warnings as they were.
C3_WarningsMirror ==
    \A d \in Drives :
        LET o == obs[d]
        IN /\ o.handled =>
                /\ Range(driver[d].warning_words) = o.reported
                /\ Range(o.log_added) = o.reported \ Range(o.before)
                /\ Len(o.log_added) = Cardinality(Range(o.log_added))
                /\ Range(o.log_cleared) = Range(o.before) \ o.reported
                /\ Len(o.log_cleared) = Cardinality(Range(o.log_cleared))
           /\ ~o.handled => driver[d].warning_words = o.before

\* C4: when an acknowledge_error task has finished and the last error code it
\* read is 0, awaiting_error_acknowledgement is false.
C4_AckClearsFlag ==
    \A d \in Drives :
        (obs[d].done.kind = "acknowledge_error" /\ obs[d].done.error_code = 0)
            => ~driver[d].awaiting_error_acknowledgement

\* C5: a guarded task that the worker takes while awaiting_error_acknowledgement
\* is true transmits nothing, leaves MC_count, rt_count and the stored
\* warnings unchanged and resolves its future to None.
C5_GuardSkips ==
    [][\A d \in Drives :
          (/\ queue[d] # <<>>
           /\ Len(queue'[d]) < Len(queue[d])
           /\ Head(queue[d]).kind \in GuardedKinds
           /\ driver[d].awaiting_error_acknowledgement)
          => /\ obs'[d].task_tx = 0
             /\ worker'[d].status = "idle"
             /\ driver'[d].MC_count = driver[d].MC_count
             /\ driver'[d].realtime_config_command_count
                    = driver[d].realtime_config_command_count
             /\ driver'[d].warning_words = driver[d].warning_words
             /\ future'[d][Head(queue[d]).id] = "None"]_vars

\* a guarded task queued behind a task that ended in DriveError has been skipped
C5_Witness ==
    \E d \in Drives :
        /\ obs[d].done.skipped
        /\ obs[d].done.id = 2
        /\ future[d][1] = "DriveError"
        /\ future[d][2] = "None"

\* C10: the tasks of one drive run one at a time and in the order of their
\* submission: a task has started only if every task submitted before it to
\* the same drive has returned or raised.
C10_OneAtATime ==
    \A d \in Drives :
        /\ Cardinality(obs[d].running) <= 1
        /\ \A i, j \in 1..Len(future[d]) :
              (i < j /\ (future[d][j] # "pending" \/ j \in obs[d].running))
                  => (future[d][i] # "pending" /\ i \notin obs[d].running)

\* the second task of a drive is in flight after the first has resolved
C10_Witness ==
    \E d \in Drives :
        /\ obs[d].running = {2}
        /\ worker[d].status = "recv"
        /\ future[d][1] # "pending"
        /\ future[d][2] = "pending"

(***************************************************************************)
(* Properties of the controller.                                           *)
(***************************************************************************)
\* the stream tasks of drive d that are queued or running
StreamTasks(d) ==
    Cardinality({i \in 1..Len(queue[d]) : queue[d][i].kind = "stream"})
        + (IF worker[d].task.kind = "stream" THEN 1 ELSE 0)

\* C6: start_stream begins the next cycle only after the stream task of every
\* drive has resolved, so at most one stream task per drive is queued or
\* running at any time.
C6_CycleBarrier == \A d \in Drives : StreamTasks(d) <= 1

\* the task submitted last to drive d is a zero-velocity command
StopSubmitted(d) ==
    LET last == Len(future[d])
        IsStop(t) == /\ t.id = last
                     /\ t.kind = "move_with_constant_velocity"
                     /\ t.velocity = 0
    IN \/ \E i \in 1..Len(queue[d]) : IsStop(queue[d][i])
       \/ IsStop(worker[d].task)
       \/ obs[d].done.id = last /\ obs[d].done.kind = "move_with_constant_velocity"

\* C7: when feedback_loop has raised, the last task it submitted to every
\* enabled drive is the zero-velocity stop command.
C7_StopsEveryDrive ==
    (ctl.op = "feedback_loop" /\ ctl.pc = "raised") => \A d \in Drives : StopSubmitted(d)

\* C8: move_all_with_constant_velocity and go_to_pos return or raise only
\* after the task of every enabled drive has resolved.
C8_FanInComplete ==
    (/\ ctl.op \in {"move_all_with_constant_velocity", "go_to_pos"}
     /\ ctl.pc \in {"returned", "raised"})
        => \A d \in Drives : future[d][ctl.futures[d]] # "pending"

\* the last task start_stream has submitted to drive d is stop_stream
StopComesLast(d) ==
    IF queue[d] # <<>> THEN queue[d][Len(queue[d])].kind = "stop_stream"
    ELSE IF worker[d].status # "idle" THEN worker[d].task.kind = "stop_stream"
    ELSE obs[d].done.kind = "stop_stream"

\* C9 as claimed: once the stream has reported done, every drive transmits
\* Stop_Streaming, as the last motion command of the call.
C9_EveryDriveStops ==
    \A d \in Drives :
        obs[d].done.kind = "stop_stream"
            => (obs[d].done.sent_MC /\ obs[d].last_motion = "Stop_Streaming")

\* C9, amended: once the stream has reported done, start_stream has submitted
\* stop_stream to every drive as its last task; a drive whose worker takes it
\* while not awaiting error acknowledgement, and whose MC_count has been read
\* from the drive by then or is read by the query of this send, transmits
\* Stop_Streaming, and that is the last motion command of the call.
C9_DrivesNotInErrorStop ==
    /\ (ctl.op = "start_stream" /\ ctl.pc = "returned") => \A d \in Drives : StopComesLast(d)
    /\ \A d \in Drives :
          (/\ obs[d].done.kind = "stop_stream"
           /\ ~obs[d].done.skipped
           /\ driver[d].MC_count_up_to_date)
          => /\ obs[d].done.sent_MC
             /\ obs[d].last_motion = "Stop_Streaming"
             /\ queue[d] = <<>>
             /\ ctl.pc = "returned"

\* both drives have streamed and then transmitted Stop_Streaming
C9_Witness ==
    /\ ctl.op = "start_stream"
    /\ ctl.cycles = MaxCycles
    /\ \A d \in Drives :
          /\ obs[d].done.kind = "stop_stream"
          /\ obs[d].done.sent_MC
          /\ obs[d].done.exc = "none"

(***************************************************************************)
(* Properties of the worker thread and of the error handling.              *)
(***************************************************************************)
\* C11: a task that raises leaves its exception in its own future and the
\* worker thread alive: the thread is back at queue.get, the tasks queued
\* behind the failing task are still queued, and the next one can be taken.
C11_WorkerSurvives ==
    \A d \in Drives :
        obs[d].done.exc # "none" =>
            /\ future[d][obs[d].done.id] = obs[d].done.exc
            /\ WorkerReady(worker[d])
            /\ \A i \in 1..Len(future[d]) :
                  (i > obs[d].done.id /\ future[d][i] = "pending")
                      => \E k \in 1..Len(queue[d]) : queue[d][k].id = i
            /\ queue[d] # <<>> => ENABLED WorkerTake(d)

\* a task has run to its result behind a task that raised TimeoutError, and
\* another behind a task that raised an exception of its own
C11_Witness ==
    \E d \in Drives :
        /\ Len(future[d]) >= 2
        /\ future[d][1] \in {"TimeoutError", "AttributeError"}
        /\ future[d][2] \in {"value", "True", "False"}
        /\ obs[d].done.id = 2

(***************************************************************************)
(* SpecShare: two drives whose workers run tasks that send requests built  *)
(* without a response, with the decoding of a reply taken line by line:    *)
(* the threads of two drives can be switched between line 121 of           *)
(* translate_response and the loop of lines 132-366 that reads what line   *)
(* 121 wrote.                                                              *)
(***************************************************************************)
MaxShared == 1          \* tasks a client submits to each drive (SpecShare)

\* a client thread calls a queued method of drive d
SubmitOn(d, task, max) ==
    /\ Len(future[d]) < max
    /\ LET p == Put(queue[d], future[d], task)
       IN /\ queue' = [queue EXCEPT ![d] = p.q]
          /\ future' = [future EXCEPT ![d] = p.f]
    /\ UNCHANGED <<driver, worker, obs, ctl, shared, codec, net, follower, linmot>>

\* get_status_word sends realtime configs, stop_stream a motion command
SharingTasks == {Task("get_status_word"), Task("stop_stream")}

\* send, lines 144-147, and translate_response, line 121: the reply is there
\* and the descriptor of the request is written
TranslateBegin(d) ==
    /\ worker[d].status = "recv"
    /\ worker' = [worker EXCEPT ![d].status = "decode"]
    /\ shared' = MarkRealtime(shared, worker[d].request)
    /\ UNCHANGED <<driver, queue, future, obs, ctl, codec, net, follower, linmot>>

\* translate_response, lines 123-368, with the flag as the loop reads it, and
\* the rest of send.  A flag set for a request without realtime config makes
\* the loop index response_unpacked past its end (IndexError out of send); a
\* flag cleared for a request with realtime config leaves realtime_config
\* None, and the caller of send (lines 430, 436, 442) raises AttributeError
\* on it after the handlers have run.
Decoded(c, raw, tick, realtime_config) ==
    LET c0 == [c EXCEPT !.W.status = "recv"]
        has == c.W.request.realtime_config # "none"
        tr == TranslateResponse(c.W.request, raw)
    IN IF realtime_config = has THEN OnResponse(c0, raw, tick)
       ELSE IF realtime_config THEN SendRaised(c0, "IndexError", None)
       ELSE IF IsError(tr.error_code)
       THEN OnResponse(c0, raw, tick)
       ELSE SendRaised([WarningHandler(c0, tr) EXCEPT !.D.send_attempt = ResetAttempt(@)],
                       "AttributeError", None)

TranslateEnd(d, raw, tick) ==
    /\ worker[d].status = "decode"
    /\ Commit(d, Decoded(Config(d), raw, tick,
                         IF SharesResponse(worker[d].request)
                         THEN shared.realtime_config
                         ELSE worker[d].request.realtime_config # "none"))
    /\ UNCHANGED <<queue, ctl, shared, codec, net, follower, linmot>>

ShareReplies(d) ==
    \E raw \in Replies(worker[d].request, {<<15, 8>>}, {0}, {0, 7}) :
        TranslateEnd(d, raw, FALSE)

NextShare ==
    \/ \E d \in Drives, task \in SharingTasks : SubmitOn(d, task, MaxShared)
    \/ \E d \in Drives : WorkerTake(d)
    \/ \E d \in Drives : TranslateBegin(d)
    \/ \E d \in Drives : ShareReplies(d)
    \/ \E d \in Drives : ReceiveTimeout(d)

SpecShare == InitDrive /\ [][NextShare]_vars

\* C12: the workers of two drives share no mutable state: between line 121 of
\* translate_response and the loop that decodes the reply, the descriptor of
\* the request of a worker holds what that worker wrote.
C12_NoSharedState ==
    \A d \in Drives :
        worker[d].status = "decode"
            => MarkRealtime(shared, worker[d].request) = shared

(***************************************************************************)
(* SpecCount: one drive, whose own count of motion commands stands at 14,  *)
(* and a client that sends one motion command after the other.             *)
(***************************************************************************)
MaxMotion == 3

NextCount ==
    \/ SubmitOn(1, MoveTask, MaxMotion)
    \/ WorkerTake(1)
    \/ DriveReplies(1, {<<14, 8>>}, {0}, {0, 7})
    \/ ReceiveTimeout(1)

SpecCount == InitDrive /\ [][NextCount]_vars

\* C13: of two successive calls of send with a motion command, each sent only
\* once, the second carries on the wire the count of the first plus one,
\* modulo 16; the count on the wire is always one of 0..15.
C13_CountSteps ==
    \A d \in Drives :
        LET o == obs[d] IN
        /\ o.motion.tx > 0 => o.motion.MC \in 0..15
        /\ (o.prev.tx = 1 /\ o.motion.tx = 1) => o.motion.MC = (o.prev.MC + 1) % 16

\* the second command went out with count 0 after count 15, the internal
\* counter standing at 16, and the third with count 1; all were answered
C13_Witness ==
    /\ obs[1].prev = [MC |-> 0, tx |-> 1]
    /\ obs[1].motion = [MC |-> 1, tx |-> 1]
    /\ driver[1].MC_count = 17
    /\ Len(future[1]) >= 3 /\ future[1][3] = "value"

\* the latest decoded response of drive d reports an error
ErrorReported(d) == obs[d].response.error_code \notin {None, 0}

\* the flag of drive d rises only in a step that decodes an error
FlagFollowsError ==
    \A d \in Drives :
        (driver'[d].awaiting_error_acknowledgement /\ ~driver[d].awaiting_error_acknowledgement)
            => obs'[d].response.error_code \notin {None, 0}

\* the task whose send decoded the error has ended with DriveError and the
\* code; a future nobody has kept shows nothing
RaisedToFuture(d) ==
    LET r == obs[d].response IN
    /\ future[d][r.task] \in {"DriveError", "unread"}
    /\ obs[d].done.id = r.task =>
          (obs[d].done.exc = "DriveError" /\ obs[d].done.exc_code = r.error_code)

\* C14 as stated: a decoded error_code that is not 0 sets
\* awaiting_error_acknowledgement and ends the enclosing task, whatever it is,
\* with DriveError carrying the code; nothing else sets the flag.
C14_ErrorRaises ==
    /\ [](\A d \in Drives :
             ErrorReported(d) =>
                 (driver[d].awaiting_error_acknowledgement /\ RaisedToFuture(d)))
    /\ [][FlagFollowsError]_vars

\* C14: a decoded error_code that is not 0 sets awaiting_error_acknowledgement;
\* the enclosing task ends with DriveError carrying the code unless it is
\* acknowledge_error, which catches the exception, goes on and never ends with
\* DriveError; nothing else sets the flag.
C14_ErrorRaisesUnlessAcknowledging ==
    /\ [](\A d \in Drives :
             ErrorReported(d) =>
                 /\ driver[d].awaiting_error_acknowledgement
                 /\ IF obs[d].response.kind = "acknowledge_error"
                    THEN future[d][obs[d].response.task] # "DriveError"
                    ELSE RaisedToFuture(d))
    /\ [][FlagFollowsError]_vars

\* a motion command was answered with error 7, and so was the query of an
\* acknowledge_error after it, which went on
C14_Witness ==
    /\ Len(future[1]) >= 2
    /\ future[1][1] = "DriveError"
    /\ obs[1].response.task = 2
    /\ obs[1].response.kind = "acknowledge_error"
    /\ obs[1].response.error_code = 7
    /\ future[1][2] = "pending"
    /\ driver[1].awaiting_error_acknowledgement

(***************************************************************************)
(* SpecJoin: one call of Controller.home, of Controller.switch_on or of    *)
(* Controller.error_acknowledge.                                           *)
(***************************************************************************)
\* Controller.home, lines 154-156
CallHome ==
    /\ CanCall
    /\ SubmitTo(Drives, TRUE, [d \in Drives |-> Task("home")])
    /\ ctl' = Waiting(Called("home"), "all", "none")
    /\ UNCHANGED <<driver, worker, obs, shared, codec, net, follower, linmot>>

\* Controller.switch_on, lines 159-161
CallSwitchOn ==
    /\ CanCall
    /\ SubmitTo(Drives, TRUE, [d \in Drives |-> Task("switch_on")])
    /\ ctl' = Waiting(Called("switch_on"), "all", "none")
    /\ UNCHANGED <<driver, worker, obs, shared, codec, net, follower, linmot>>

\* Controller.error_acknowledge, lines 164-166
CallErrorAcknowledge ==
    /\ CanCall
    /\ SubmitTo(Drives, TRUE, [d \in Drives |-> Task("acknowledge_error")])
    /\ ctl' = Waiting(Called("error_acknowledge"), "all", "none")
    /\ UNCHANGED <<driver, worker, obs, shared, codec, net, follower, linmot>>

NextJoin ==
    \/ CallHome
    \/ CallSwitchOn
    \/ CallErrorAcknowledge
    \/ Join
    \/ JoinBlocked
    \/ \E d \in Drives : CtlDrive(d)

SpecJoin == InitDrive /\ [][NextJoin]_vars

\* C15: when a call of Controller.home, switch_on or error_acknowledge is over,
\* the task it gave to each drive has resolved, whether with a result, with
\* DriveError or with TimeoutError.
C15_JoinsEveryDrive ==
    (ctl.op \in {"home", "switch_on", "error_acknowledge"} /\ ctl.pc \in {"returned", "raised"})
        => \A d \in Drives : future[d][ctl.futures[d]] # "pending"

(***************************************************************************)
(* SpecDirect: the main thread calls send, get_main_state or get_MC_count  *)
(* of drive 1, which carry no run_on_driver_thread, while a client queues  *)
(* tasks for the worker thread of that drive.                              *)
(***************************************************************************)
\* Realtime_Config.get_response_byte_size for the commands of the driver:
\* No_Operation has no DI parameters, get_status_word reads UPID and a Uint16
RtResponseSize(realtime_config) ==
    CASE realtime_config = "none" -> 0
      [] realtime_config = "No_Operation" -> 2
      [] OTHER -> 2 + 2 + 2

\* Response.get_format, lines 371-394: the bytes after the two def-words
GetFormatSize(response, realtime_config) ==
    LET size == (IF response.state_var THEN 2 ELSE 0)
                + (IF response.actual_pos THEN 4 ELSE 0)
                + (IF response.warn_word THEN 2 ELSE 0)
                + (IF response.error_code THEN 2 ELSE 0)
                + (IF response.monitoring_channel THEN 16 ELSE 0)
                + RtResponseSize(realtime_config)
    IN IF size < 6 THEN 6 ELSE size

DirectOps == {"send", "get_main_state", "get_MC_count"}

\* the main thread waits in datagram.recieve for drive d
DirectWaits(d) == ctl.pc = "recv" /\ ctl.i = d

\* Driver.send, lines 116-144, run by the calling thread with the request of
\* get_main_state and get_MC_count: no counters, transmit, block in recieve
DirectCall(d, op) ==
    /\ CanCall
    /\ op \in DirectOps
    /\ ctl' = [Called(op) EXCEPT !.pc = "recv", !.i = d]
    /\ UNCHANGED <<driver, worker, queue, future, obs, shared, codec, net, follower, linmot>>

\* Driver.send, lines 147-162, run by the calling thread: the handlers work on
\* the fields of the driver the worker thread uses
DirectReply(d, raw) ==
    /\ DirectWaits(d)
    /\ LET tr == TranslateResponse(StateQuery, raw)
           c1 == WarningHandler(Config(d), tr)
       IN /\ obs' = [obs EXCEPT ![d] = c1.O]
          /\ IF IsError(tr.error_code)
             THEN /\ driver' = [driver EXCEPT ![d] =
                                   [c1.D EXCEPT !.awaiting_error_acknowledgement = TRUE]]
                  /\ ctl' = Raised(ctl, "DriveError")
             ELSE /\ driver' = [driver EXCEPT ![d] =
                                   [c1.D EXCEPT !.send_attempt = ResetAttempt(@)]]
                  /\ ctl' = Returned(ctl)
    /\ UNCHANGED <<worker, queue, future, shared, codec, net, follower, linmot>>

\* Driver.send, lines 163-170, run by the calling thread
DirectTimeout(d) ==
    /\ DirectWaits(d)
    /\ IF driver[d].send_attempt < max_send_attempts
       THEN /\ driver' = [driver EXCEPT ![d].send_attempt = @ + 1]
            /\ ctl' = ctl
       ELSE /\ driver' = driver
            /\ ctl' = Raised(ctl, "TimeoutError")
    /\ UNCHANGED <<worker, queue, future, obs, shared, codec, net, follower, linmot>>

\* Both threads wait on response_queue[IP]: the worker gets the datagram that
\* answers the main thread.  translate_response, line 128: struct.unpack
\* raises when the worker expects more bytes than that datagram has; where
\* it expects no more, the step is one of Receive.
ReceiveForeign(d) ==
    /\ worker[d].status = "recv"
    /\ DirectWaits(d)
    /\ GetFormatSize(worker[d].request.response, worker[d].request.realtime_config)
           > GetFormatSize(StateQuery.response, StateQuery.realtime_config)
    /\ Commit(d, SendRaised(Config(d), "struct.error", None))
    /\ UNCHANGED <<queue, ctl, shared, codec, net, follower, linmot>>

DirectTasks == {MoveTask, Task("get_status_word")}

NextDirect ==
    \/ \E task \in DirectTasks : Submit(task, MaxTasks)
    \/ WorkerTake(1)
    \/ DriveReplies(1, {<<15, 8>>}, {0, 1}, {0, 7})
    \/ ReceiveTimeout(1)
    \/ \E op \in DirectOps : DirectCall(1, op)
    \/ \E raw \in Replies(StateQuery, {<<15, 8>>}, {0, 1}, {0, 7}) : DirectReply(1, raw)
    \/ DirectTimeout(1)
    \/ ReceiveForeign(1)

SpecDirect == InitDrive /\ [][NextDirect]_vars

\* C16: for one drive no two round trips are in flight at once, whichever
\* public operation of the driver the main thread calls: while the worker
\* thread waits for the answer to a request, the main thread does not wait
\* for the answer to another one.
C16_RoundTripsSerialized ==
    \A d \in Drives : ~(worker[d].status = "recv" /\ DirectWaits(d))

(***************************************************************************)
(* The codec on its own: Request.get_binary and                            *)
(* Response.translate_response as functions of their arguments.            *)
(***************************************************************************)
\* Response.__init__, lines 107-117: response_types_included, in this order
FieldOrder ==
    <<"status_word", "state_var", "actual_pos", "demand_pos", "current",
      "warn_word", "error_code", "monitoring_channel", "realtime_config">>

FieldNames == Range(FieldOrder)

\* every descriptor Response(...) can build
Descriptors == [FieldNames -> BOOLEAN]

\* ControlWord.get_binary, line 51: struct.pack("H", decimal)
ControlWordSize(control_word) == IF control_word = None THEN 0 ELSE 2

\* Motion_Commmand_Interface.__init__, line 70: "<H" and the parameters, which
\* are all four bytes wide: Stop_Streaming has none, AccVAI_Infinite_Motion
\* two, VAI_go_to_pos four
MotionSize(MC_interface) ==
    CASE MC_interface = "none" -> 0
      [] MC_interface = "Stop_Streaming" -> 2
      [] MC_interface = "AccVAI_Infinite_Motion_Positive_Direction" -> 2 + 2 * 4
      [] OTHER -> 2 + 4 * 4

\* Realtime_Config.__init__, line 158: "<H" and the DO parameters:
\* No_Operation has none, Read_RAM_Value_of_Parameter_by_UPID the UPID
RtSize(realtime_config) ==
    CASE realtime_config = "none" -> 0
      [] realtime_config = "No_Operation" -> 2
      [] OTHER -> 2 + 2

\* Request.get_binary, lines 38-42
RequestDef(request) ==
    (IF request.control_word # None THEN 1 ELSE 0)
    + (IF request.MC_interface # "none" THEN 2 ELSE 0)
    + (IF request.realtime_config # "none" THEN 4 ELSE 0)

RECURSIVE FlagsFrom(_, _)
FlagsFrom(response, i) ==
    IF i > Len(FieldOrder) THEN 0
    ELSE (IF response[FieldOrder[i]] THEN 2 ^ (i - 1) ELSE 0) + FlagsFrom(response, i + 1)

\* Response.response_def, lines 397-408
ResponseDef(response) == FlagsFrom(response, 1)

\* Request.get_binary, lines 37-49: the two def-words, then the blocks of the
\* control word, the motion command and the realtime config, each with its
\* length in bytes
GetBinary(request, MC_count, realtime_config_command_count) ==
    [request_def |-> RequestDef(request),
     response_def |-> ResponseDef(request.response),
     MC_count |-> IF request.MC_interface # "none" THEN MC_count ELSE None,
     command_count |-> IF request.realtime_config # "none"
                       THEN realtime_config_command_count ELSE None,
     data |-> <<ControlWordSize(request.control_word), MotionSize(request.MC_interface),
                RtSize(request.realtime_config)>>]

\* len(request_header + data)
ByteLength(binary) == 4 + 4 + binary.data[1] + binary.data[2] + binary.data[3]

\* the requests get_binary is applied to
EncodedRequests ==
    {Request(response, control_word, MC_interface, realtime_config) :
        response \in Descriptors,
        control_word \in {None, CW_zero},
        MC_interface \in {"none", "Stop_Streaming", "VAI_go_to_pos"},
        realtime_config \in {"none", "No_Operation"}}

InitEncode ==
    /\ driver = [d \in Drives |-> DriverInit]
    /\ worker = [d \in Drives |-> WorkerInit]
    /\ queue = [d \in Drives |-> <<>>]
    /\ future = [d \in Drives |-> <<>>]
    /\ obs = [d \in Drives |-> ObsInit]
    /\ ctl = IdleCtl
    /\ shared = SharedResponse
    /\ net = NetInit
    /\ follower = NoFollower
    /\ linmot = NoLinMot
    /\ codec \in {[op |-> "request", request |-> request] : request \in EncodedRequests}

\* Driver.send, lines 130-133: get_binary with the mapped counts
Encode(MC_count, realtime_config_command_count) ==
    /\ codec.op = "request"
    /\ codec' = [op |-> "get_binary", request |-> codec.request,
                 binary |-> GetBinary(codec.request, MappedCount(MC_count),
                                      MappedCount(realtime_config_command_count))]
    /\ UNCHANGED <<driver, worker, queue, future, obs, ctl, shared, net, follower, linmot>>

NextEncode == \E MC_count \in {1, 16}, command_count \in {1} : Encode(MC_count, command_count)

SpecEncode == InitEncode /\ [][NextEncode]_vars

\* C17: every request get_binary produces is at least 14 bytes long: blocks
\* that together have fewer than 6 bytes are followed by zero bytes up to 6.
C17_PaddedRequest ==
    codec.op = "get_binary" => ByteLength(codec.binary) >= 14

\* a field of a Translated_Response: None, or a value (0, an empty list and an
\* empty dict are values)
Null == <<>>

Some(value) == <<value>>

\* Translated_Response(), line 129: every field None
NoFields == [name \in FieldNames |-> Null]

\* Response.get_format, lines 371-386: one item for each included type but
\* realtime_config, and one for the realtime config if the request has one
RECURSIVE FormatItems(_, _, _)
FormatItems(included, realtime_config_command, n) ==
    IF n > Len(FieldOrder) THEN 0
    ELSE FormatItems(included, realtime_config_command, n + 1)
         + (IF FieldOrder[n] = "realtime_config"
            THEN (IF realtime_config_command # "none" THEN 1 ELSE 0)
            ELSE (IF included[FieldOrder[n]] THEN 1 ELSE 0))

\* translate_response, lines 136-362: the value of one response type
TranslateField(name, value, realtime_config_command) ==
    CASE name = "state_var" -> DecodeStateVar(<<value, value>>)
      [] name = "warn_word" -> DecodeWarnWord(value)
      [] name = "realtime_config" ->
            [command_count |-> value, status_number |-> value,
             details |-> realtime_config_command]
      [] OTHER -> value

\* translate_response, lines 131-368: the loop over response_types_included,
\* from the n-th type on, i values of response_unpacked consumed
RECURSIVE TranslateFrom(_, _, _, _, _, _)
TranslateFrom(included, realtime_config_command, response_unpacked, n, i, translated_response) ==
    IF n > Len(FieldOrder) THEN [exc |-> "none", translated |-> translated_response]
    ELSE IF ~included[FieldOrder[n]]
    THEN TranslateFrom(included, realtime_config_command, response_unpacked, n + 1, i,
                       translated_response)
    ELSE IF i + 1 > Len(response_unpacked)
    THEN [exc |-> "IndexError", translated |-> NoFields]
    ELSE IF FieldOrder[n] = "realtime_config" /\ realtime_config_command = "none"
    THEN [exc |-> "ValueError", translated |-> NoFields]
    ELSE TranslateFrom(included, realtime_config_command, response_unpacked, n + 1, i + 1,
                       [translated_response EXCEPT ![FieldOrder[n]] =
                           Some(TranslateField(FieldOrder[n], response_unpacked[i + 1],
                                               realtime_config_command))])

\* Response.translate_response, lines 119-368, of a datagram of the expected
\* length all of whose values are raw: line 121 writes the descriptor, the
\* format gives the values, the loop translates them. response: the
\* descriptor after the call.
TranslateDatagram(response, realtime_config_command, raw) ==
    LET included == [response EXCEPT !["realtime_config"] = (realtime_config_command # "none")]
        response_unpacked == [k \in 1..FormatItems(included, realtime_config_command, 1) |-> raw]
        loop == TranslateFrom(included, realtime_config_command, response_unpacked, 1, 0, NoFields)
    IN [response |-> included, exc |-> loop.exc, translated |-> loop.translated]

InitDecode ==
    /\ driver = [d \in Drives |-> DriverInit]
    /\ worker = [d \in Drives |-> WorkerInit]
    /\ queue = [d \in Drives |-> <<>>]
    /\ future = [d \in Drives |-> <<>>]
    /\ obs = [d \in Drives |-> ObsInit]
    /\ ctl = IdleCtl
    /\ shared = SharedResponse
    /\ net = NetInit
    /\ follower = NoFollower
    /\ linmot = NoLinMot
    /\ codec \in {[op |-> "response", descriptor |-> response, command |-> command, raw |-> raw] :
                     response \in Descriptors,
                     command \in {"none", "No_Operation", "Read_RAM_Value_of_Parameter_by_UPID"},
                     raw \in {0, 1}}

\* Driver.send, line 147
Decode ==
    /\ codec.op = "response"
    /\ codec' = [op |-> "translate_response", descriptor |-> codec.descriptor,
                 command |-> codec.command,
                 out |-> TranslateDatagram(codec.descriptor, codec.command, codec.raw)]
    /\ UNCHANGED <<driver, worker, queue, future, obs, ctl, shared, net, follower, linmot>>

NextDecode == Decode

SpecDecode == InitDecode /\ [][NextDecode]_vars

\* C18: translate_response returns a Translated_Response in which exactly the
\* fields the descriptor selects are not None, for every descriptor and for
\* requests with and without a realtime-config command.
C18_ExactlyDescriptorFields ==
    codec.op = "translate_response" =>
        /\ codec.out.exc = "none"
        /\ \A name \in FieldNames :
               (codec.out.translated[name] # Null) <=> codec.descriptor[name]

(***************************************************************************)
(* SpecProcedures: one drive and a client that calls home and switch_on;   *)
(* the drive is found in any main state and moves between them as it       *)
(* likes.                                                                  *)
(***************************************************************************)
MaxProcedures == 1

ProcedureTasks ==
    {[Task("home") EXCEPT !.overwrite = overwrite] : overwrite \in BOOLEAN}
    \cup {Task("switch_on")}

\* <<sub_state, main_state>>: not ready to switch on; ready to switch on;
\* operation enabled, not homed and homed; homing, under way and finished
ProcedureStateVars == {<<0, 0>>, <<0, 2>>, <<0, 8>>, <<128, 8>>, <<0, 9>>, <<15, 9>>}

NextProcedures ==
    \/ \E task \in ProcedureTasks : Submit(task, MaxProcedures)
    \/ WorkerTake(1)
    \/ DriveReplies(1, ProcedureStateVars, {0}, {0, 7})
    \/ ReceiveTimeout(1)

SpecProcedures == InitDrive /\ [][NextProcedures]_vars

\* the procedure of drive d whose trace obs[d] holds has ended
Ended(d) == obs[d].done.id = obs[d].trace.task

\* the procedure of drive d sends the control word cw in this step
Sends(d, cw) ==
    /\ obs'[d].trace.task = obs[d].trace.task
    /\ Len(obs'[d].trace.cws) = Len(obs[d].trace.cws) + 1
    /\ obs'[d].trace.cws[Len(obs'[d].trace.cws)] = cw

\* C19: home sends (switch_on, home) only if its first state query reported
\* main_state 8 and homed false or overwrite is set; with homed reported and
\* overwrite not set it returns True and has sent no control word; with a
\* main_state other than 8 it sends no control word and what it returns is
\* False; it returns True after homing only having sent (switch_on, home) and
\* then (switch_on), the latter in the step in which homing_finished was
\* reported.
C19_Home ==
    /\ [](\A d \in Drives :
             LET t == obs[d].trace IN
             t.kind = "home" =>
                 /\ (\E k \in 1..Len(t.cws) : t.cws[k] = CW_switch_on_home)
                        => (t.first.main_state = 8 /\ (t.first.homed = 0 \/ t.overwrite))
                 /\ (t.first.homed = 1 /\ ~t.overwrite)
                        => (t.cws = <<>> /\ Ended(d) /\ obs[d].done.result = "True")
                 /\ (t.first # NoStateVar /\ t.first.main_state # 8)
                        => /\ t.cws = <<>>
                           /\ (Ended(d) /\ obs[d].done.exc = "none")
                                  => obs[d].done.result = "False"
                 /\ (Ended(d) /\ obs[d].done.result = "True" /\ t.cws # <<>>)
                        => (t.cws = <<CW_switch_on_home, CW_switch_on>>
                            /\ t.last.homing_finished = 1))
    /\ [][\A d \in Drives :
             (obs'[d].trace.kind = "home" /\ Sends(d, CW_switch_on))
                 => obs'[d].trace.last.homing_finished = 1]_vars

\* a home with overwrite set found the drive homed, homed it again and
\* returned True
C19_Witness ==
    /\ obs[1].trace.kind = "home"
    /\ obs[1].trace.overwrite
    /\ obs[1].trace.first.homed = 1
    /\ obs[1].trace.cws = <<CW_switch_on_home, CW_switch_on>>
    /\ Ended(1)
    /\ obs[1].done.result = "True"
    /\ future[1][1] = "True"

\* C20: switch_on returns True only if the state query answered last reported
\* main_state 8; it sends (switch_on) only in a step in which a query
\* reported main_state 2; the first control word it sends is the all-zero
\* one exactly when the first query reported a main_state other than 2 and 8.
C20_SwitchOn ==
    /\ [](\A d \in Drives :
             LET t == obs[d].trace IN
             t.kind = "switch_on" =>
                 /\ (Ended(d) /\ obs[d].done.result = "True") => t.last.main_state = 8
                 /\ t.first # NoStateVar =>
                        ((t.first.main_state \notin {2, 8})
                             <=> (t.cws # <<>> /\ t.cws[1] = CW_zero)))
    /\ [][\A d \in Drives :
             (obs'[d].trace.kind = "switch_on" /\ Sends(d, CW_switch_on))
                 => obs'[d].trace.last.main_state = 2]_vars

\* a switch_on found the drive homing, sent the all-zero control word, then
\* (switch_on), and returned True
C20_Witness ==
    /\ obs[1].trace.kind = "switch_on"
    /\ obs[1].trace.first.main_state = 9
    /\ obs[1].trace.cws = <<CW_zero, CW_switch_on>>
    /\ Ended(1)
    /\ obs[1].done.result = "True"
    /\ future[1][1] = "True"

(***************************************************************************)
(* Properties of Controller.feedback_loop.                                 *)
(***************************************************************************)
\* C21: a feedback loop called with max_cycles calls the stepper at most
\* max_cycles times before it stops the drives and returns.
C21_AtMostMaxCycles ==
    (ctl.op = "feedback_loop" /\ ctl.max_cycles # None) => ctl.calls <= ctl.max_cycles

\* the main thread of the feedback loop moves on to the wait of the phase
LoopEnters(phase) ==
    /\ ctl'.op = "feedback_loop"
    /\ ctl'.pc = "wait"
    /\ ctl'.phase = phase
    /\ ctl'.futures # ctl.futures

\* the call has given the task to drive d, last in its queue, and holds its future
Commands(d, task) ==
    /\ queue'[d] = Append(queue[d], [task EXCEPT !.id = Len(future[d]) + 1, !.held = TRUE])
    /\ ctl'.futures[d] = Len(future'[d])

\* C22: when the stepper reports the path complete, the feedback loop gives a
\* stop with velocity zero to every drive and never calls the stepper again;
\* it returns only once every one of these stops has resolved with a result.
\* In a cycle that goes on, the go_to_pos of the next cycle carries the
\* velocity and the acceleration the stepper returned (their absolute values,
\* the sign of the velocity choosing the end of the stroke).
C22_DoneStopsElseCarriesOn ==
    /\ []((ctl.op = "feedback_loop" /\ ctl.pc = "returned") =>
              /\ ctl.phase = "stop"
              /\ \A d \in Drives : future[d][ctl.futures[d]] = "value")
    /\ [][/\ LoopEnters("stop") =>
                \A d \in Drives : Commands(d, ConstantVelocityTask(0, 10))
          /\ (ctl.op = "feedback_loop" /\ ctl.phase = "stop") => ctl'.calls = ctl.calls
          /\ (LoopEnters("go_to_pos") /\ ctl.op = "feedback_loop") =>
                /\ ctl'.calls = ctl.calls + 1
                /\ \A d \in Drives :
                      Commands(d, PositionTask(
                          IF ctl'.velocity[d] < 0 THEN "min_pos" ELSE "max_pos",
                          Abs(ctl'.velocity[d]), ctl'.acceleration[d]))]_vars

\* the stepper went on once, towards the lower end of the stroke of drive 1,
\* and reported the path complete in the second cycle; both stops resolved
C22_Witness ==
    /\ ctl.op = "feedback_loop"
    /\ ctl.pc = "returned"
    /\ ctl.calls = 2
    /\ ctl.cycles = 1
    /\ ctl.velocity[1] = -1
    /\ ctl.acceleration[1] = 2
    /\ \A d \in Drives : future[d][ctl.futures[d]] = "value"

(***************************************************************************)
(* SpecNet: the datagram layer (IO/Datagrams.py) under the round trips of  *)
(* Driver.send.  The worker of each drive sends requests; a drive answers  *)
(* a request at once, late or never; a host without driver sends a         *)
(* datagram of its own; the listener thread routes what recvfrom returns.  *)
(***************************************************************************)
MaxRequests == 2

\* linUDP.send, line 28: sendto.  Lines 29-30 change nothing once the
\* address has its queue: the worker is then as good as in linUDP.recieve.
Sendto(n, d) ==
    [n EXCEPT !.wire[d] = Append(@, Datagram(d, n.request[d], n.send_attempt[d])),
              !.pc[d] = IF d \in n.keys THEN "recieve" ELSE "sent"]

\* the requests the workers have been given so far
Requested == net.request[1] + net.request[2]

\* Driver.send, line 136, up to the sendto of linUDP.send
NetSend(d) ==
    /\ net.pc[d] = "idle"
    /\ Requested < MaxRequests
    /\ net' = Sendto([net EXCEPT !.request[d] = @ + 1], d)
    /\ UNCHANGED <<driver, worker, queue, future, obs, ctl, shared, codec, follower, linmot>>

\* linUDP.send, lines 29-30: the first send to an address creates its queue;
\* the worker then waits in linUDP.recieve
NetCreateQueue(d) ==
    /\ net.pc[d] = "sent"
    /\ net' = [net EXCEPT !.keys = @ \cup {d}, !.pc[d] = "recieve"]
    /\ UNCHANGED <<driver, worker, queue, future, obs, ctl, shared, codec, follower, linmot>>

\* linUDP.recieve, line 34, and Driver.send, lines 144-162: the oldest
\* datagram of the queue is the response of the request
NetRecieve(d) ==
    /\ net.pc[d] = "recieve"
    /\ net.response_queue[d] # <<>>
    /\ net' = [net EXCEPT !.response_queue[d] = Tail(@),
                          !.answer[d] = [request |-> net.request[d],
                                         response |-> Head(net.response_queue[d])],
                          !.send_attempt[d] = 1,
                          !.pc[d] = "idle"]
    /\ UNCHANGED <<driver, worker, queue, future, obs, ctl, shared, codec, follower, linmot>>

\* Driver.send, lines 163-170: queue.Empty after response_timeout
NetTimeout(d) ==
    /\ net.pc[d] = "recieve"
    /\ net.response_queue[d] = <<>>
    /\ net' = IF net.send_attempt[d] < max_send_attempts
              THEN Sendto([net EXCEPT !.send_attempt[d] = @ + 1], d)
              ELSE [net EXCEPT !.pc[d] = "idle"]
    /\ UNCHANGED <<driver, worker, queue, future, obs, ctl, shared, codec, follower, linmot>>

\* a put in front of the queue
ResponsePutFirst(response_queue, key, response) ==
    [response_queue EXCEPT ![key] = <<response>> \o @]

\* linUDP.listen, line 23: self.response_queue[addr[0]].put(response)
ResponsePut(response_queue, key, response) ==
    [response_queue EXCEPT ![key] = Append(@, response)]

\* a datagram of the host without driver
Stray == [wire |-> 0, i |-> 0]

\* what recvfrom can return next: the answer of a drive to a request it has
\* received, at once or late (a drive answers in the order it receives, and
\* what it left unanswered before stays so), or a stray datagram
Arrivals ==
    UNION {{[wire |-> d, i |-> i] : i \in 1..Len(net.wire[d])} : d \in Drives}
    \cup (IF net.strangers = 0 THEN {Stray} ELSE {})

\* linUDP.listen, lines 21-25: one turn of the loop
Listen(arrival) ==
    /\ arrival \in Arrivals
    /\ LET addr == arrival.wire
           response == IF arrival = Stray THEN Datagram(0, 0, 0)
                       ELSE net.wire[addr][arrival.i]
       IN net' = [net EXCEPT !.wire = [d \in Drives |->
                                          IF d = addr
                                          THEN SubSeq(@[d], arrival.i + 1, Len(@[d]))
                                          ELSE @[d]],
                             !.strangers = IF arrival = Stray THEN 1 ELSE @,
                             !.response_queue =
                                 IF addr \in net.keys THEN ResponsePut(@, addr, response)
                                 ELSE @]
    /\ UNCHANGED <<driver, worker, queue, future, obs, ctl, shared, codec, follower, linmot>>

NextNet ==
    \/ \E d \in Drives : NetSend(d)
    \/ \E d \in Drives : NetCreateQueue(d)
    \/ \E d \in Drives : NetRecieve(d)
    \/ \E d \in Drives : NetTimeout(d)
    \/ \E arrival \in Arrivals : Listen(arrival)

SpecNet == InitDrive /\ [][NextNet]_vars

\* recvfrom has returned a datagram to the listener
Hears ==
    \/ net'.strangers # net.strangers
    \/ \E d \in Drives : Len(net'.wire[d]) < Len(net.wire[d])

\* that datagram
Heard ==
    IF net'.strangers # net.strangers THEN Datagram(0, 0, 0)
    ELSE LET d == CHOOSE a \in Drives : Len(net'.wire[a]) < Len(net.wire[a])
         IN net.wire[d][Len(net.wire[d]) - Len(net'.wire[d])]

\* the listener has put the datagram nowhere
Drops == Hears /\ net'.response_queue = net.response_queue

\* C23: a queue holds datagrams of its own address only; the listener puts a
\* datagram behind the ones its queue holds and touches no other queue;
\* recieve returns the oldest datagram of the queue of its address; a
\* datagram from an address that has no queue is dropped, so that the
\* datagram of the host without driver reaches no queue and no worker.
C23_RoutedBySource ==
    /\ [](\A a \in Addresses :
             /\ a \notin net.keys => net.response_queue[a] = <<>>
             /\ \A i \in 1..Len(net.response_queue[a]) : net.response_queue[a][i].addr = a)
    /\ [](0 \notin net.keys)
    /\ [](\A d \in Drives :
             net.answer[d].response # NoDatagram => net.answer[d].response.addr = d)
    /\ [][/\ \A d \in Drives :
                net'.answer[d] # net.answer[d] =>
                    /\ net'.answer[d].response = Head(net.response_queue[d])
                    /\ net'.response_queue[d] = Tail(net.response_queue[d])
          /\ Hears =>
                /\ Drops <=> Heard.addr \notin net.keys
                /\ \A a \in Addresses \ {Heard.addr} :
                       net'.response_queue[a] = net.response_queue[a]
                /\ ~Drops =>
                       net'.response_queue[Heard.addr]
                           = net.response_queue[Heard.addr] \o <<Heard>>]_vars

\* drive 1 answered both attempts of its first request late: the first reply
\* was returned for its second request, the second waits in the queue, and
\* the datagram of the host without driver was dropped
C23_Witness ==
    /\ net.answer[1].response = Datagram(1, 1, 1)
    /\ net.answer[1].request = 2
    /\ net.response_queue[1] = <<Datagram(1, 1, 2)>>
    /\ net.response_queue[2] = <<>>
    /\ net.strangers = 1

\* C29: the response a call of Driver.send returns is a reply of the drive
\* to the request of that call, never a late reply to an earlier request.
C29_RepliesCorrelated ==
    \A d \in Drives :
        net.answer[d].response # NoDatagram =>
            net.answer[d].response.request = net.answer[d].request

\* C30: no datagram of a drive is dropped once a request was sent to it.
C30_FirstReplyKept ==
    [][Drops => \A d \in Drives : net.request[d] >= 1 => Heard.addr # d]_vars

(***************************************************************************)
(* SpecFollow: a Path_follower (Velocity_calculator_v2.py) called with     *)
(* the positions of a grid.  Positions are whole grid steps, velocities    *)
(* are counted in Unit-ths of a step; a division by zero gives NaN as      *)
(* numpy does (a warning, no exception).                                   *)
(***************************************************************************)
MaxCalls == 4

Unit == 10

\* constructor parameters, lines 11-20: lengths in grid steps, velocities in
\* Unit-ths
next_target_tol == 1

end_vector_weight == 1

off_path_weight == 1

max_velocity == 20

min_velocity == 5

Dot(u, v) == u[1] * v[1] + u[2] * v[2]

Plus(u, v) == <<u[1] + v[1], u[2] + v[2]>>

Minus(u, v) == <<u[1] - v[1], u[2] - v[2]>>

Times(k, v) == <<k * v[1], k * v[2]>>

Over(v, k) == <<v[1] \div k, v[2] \div k>>

\* the square root, rounded down
ISqrt(x) == CHOOSE r \in 0..x : r * r <= x /\ (r + 1) * (r + 1) > x

\* np.linalg.norm
Norm(v) == ISqrt(Dot(v, v))

\* a vector of numbers, and the vector a division of zero by zero leaves
Num(v) == [nan |-> FALSE, v |-> v]

NaN == [nan |-> TRUE, v |-> <<0, 0>>]

\* v / np.linalg.norm(v) of a vector of grid steps, in Unit-ths
Normalized(v) ==
    IF Dot(v, v) = 0 THEN NaN
    ELSE Num(Over(Times(Unit * Unit, v), ISqrt(Dot(v, v) * Unit * Unit)))

\* Path_follower.add_end_vector, lines 46-58
add_end_vector(keypoints) ==
    LET second_last_row == keypoints[Len(keypoints) - 1]
        last_row == keypoints[Len(keypoints)]
        end_vector == Minus(second_last_row, last_row)
        end_norm == Norm(end_vector)
        weighted_end == Plus(Over(Times(end_vector_weight, end_vector), end_norm), last_row)
    IN Append(keypoints, weighted_end)

\* Path_follower.__init__, lines 24-45
NewFollower(path_keypoints, telemetry) ==
    [keypoints |-> add_end_vector(path_keypoints), telemetry |-> telemetry,
     has_target |-> FALSE, i |-> 0, target_number |-> 0,
     previous_target |-> <<0, 0>>, target |-> <<0, 0>>, current_pos |-> <<0, 0>>,
     calls |-> 0, out |-> "none", final_v |-> Num(<<0, 0>>), complete |-> FALSE,
     started_near |-> FALSE, at_end |-> 0]

\* Path_follower.off_path_vector, lines 160-186: the vector v
off_path_vector(f) ==
    LET p1 == f.previous_target
        p2 == f.target
        p3 == f.current_pos
        d == Minus(p2, p1)
        w == Minus(p3, p1)
    IN IF Dot(d, d) = 0 THEN NaN
       ELSE LET t == (Dot(w, d) * Unit) \div Dot(d, d)
                h == Plus(Times(Unit, p1), Times(t, d))
                normal_vector == Minus(h, Times(Unit, p3))
            IN Num(Times(off_path_weight, normal_vector))

\* Path_follower.angle_dependant_velocity, lines 283-313: aggregation is the
\* factor of lines 307-309, a number from 0 to 1 (in Unit-ths)
angle_dependant_velocity(f, aggregation) ==
    LET p_k == Minus(f.target, f.current_pos)
        p_k_normalized == Normalized(p_k)
    IN IF p_k_normalized.nan THEN NaN
       ELSE Num(Over(Times(aggregation * max_velocity, p_k_normalized.v), Unit * Unit))

MaxAbs(v) == LET a == IF v[1] < 0 THEN -v[1] ELSE v[1]
                 b == IF v[2] < 0 THEN -v[2] ELSE v[2]
             IN IF a > b THEN a ELSE b

\* Path_follower.clip_vector_angle, lines 315-330; a comparison with NaN is
\* false
clip_vector_angle(a_vec, off_path, p_k) ==
    IF a_vec.nan \/ off_path.nan THEN NaN
    ELSE LET v_final == Plus(off_path.v, a_vec.v)
             p_k_normalized == Normalized(p_k)
         IN IF MaxAbs(v_final) > max_velocity
            THEN Num(Over(Times(max_velocity, v_final), Norm(v_final)))
            ELSE IF Norm(a_vec.v) < min_velocity
            THEN Num(Over(Times(min_velocity, p_k_normalized.v), Unit))
            ELSE Num(v_final)

\* Path_follower.__call__, lines 375-388: the condition to go on to the next
\* target; 0/0 compares false
AdvanceCondition(p1, p2, p3) ==
    LET previous_to_target == Minus(p2, p1)
        previous_to_current_vector == Minus(p3, p1)
    IN \/ /\ Dot(previous_to_target, previous_to_target) # 0
          /\ Dot(previous_to_current_vector, previous_to_target)
                 >= Dot(previous_to_target, previous_to_target)
       \/ Dot(Minus(p2, p3), Minus(p2, p3)) <= next_target_tol * next_target_tol

\* a call that goes on by one target at most
NextTargetOnce(f) ==
    IF AdvanceCondition(f.previous_target, f.target, f.current_pos)
    THEN LET i == f.i + 1
         IN IF i + 1 >= Len(f.keypoints)
            THEN [f EXCEPT !.i = i, !.complete = TRUE]
            ELSE [f EXCEPT !.i = i,
                           !.target = f.keypoints[i + 1],
                           !.previous_target = f.keypoints[i],
                           !.target_number = i]
    ELSE f

\* Path_follower.__call__, lines 374-398: the loop over the targets
RECURSIVE NextTarget(_)
NextTarget(f) ==
    IF AdvanceCondition(f.previous_target, f.target, f.current_pos)
    THEN LET i == f.i + 1
         IN IF i + 1 >= Len(f.keypoints)
            THEN [f EXCEPT !.i = i, !.complete = TRUE]
            ELSE NextTarget([f EXCEPT !.i = i,
                                      !.target = f.keypoints[i + 1],
                                      !.previous_target = f.keypoints[i],
                                      !.target_number = i])
    ELSE f

\* the last waypoint of the path given to the constructor
LastWaypoint(f) == f.keypoints[Len(f.keypoints) - 1]

Near(p, q) == Dot(Minus(p, q), Minus(p, q)) <= next_target_tol * next_target_tol

\* Path_follower.__call__, lines 332-400.  nan_raises: bisect (line 280)
\* raises ValueError for a function value NaN in the releases of scipy that
\* check it, and returns a number in the others.
Call(f, current_position, aggregation, nan_raises) ==
    LET f1 == IF f.has_target THEN f
              ELSE [f EXCEPT !.has_target = TRUE, !.i = 0, !.target_number = 0,
                             !.previous_target = current_position,
                             !.target = f.keypoints[1],
                             !.started_near = Near(f.keypoints[1], current_position)]
        f2 == [f1 EXCEPT !.current_pos = current_position,
                         !.calls = @ + 1,
                         !.at_end = IF Near(LastWaypoint(f), current_position)
                                    THEN @ + 1 ELSE 0]
        p_k == Minus(f2.target, f2.current_pos)
        off_path == off_path_vector(f2)
        a_vec == angle_dependant_velocity(f2, aggregation)
        final_v == clip_vector_angle(a_vec, off_path, p_k)
    IN IF ~f.telemetry THEN [f2 EXCEPT !.out = "AttributeError"]
       ELSE IF a_vec.nan /\ nan_raises THEN [f2 EXCEPT !.out = "ValueError"]
       ELSE NextTarget([f2 EXCEPT !.out = "returned", !.final_v = final_v])

\* the waypoints of section 5 of the spec's example, three grid steps apart;
\* a path with a corner; a path that names a waypoint twice
ExamplePath == <<(<<0, 0>>), (<<3, 0>>)>>

Paths == {ExamplePath,
          <<(<<0, 0>>), (<<3, 0>>), (<<3, 1>>)>>,
          <<(<<0, 0>>), (<<2, 0>>), (<<2, 0>>), (<<4, 0>>)>>}

Positions == {<<x, y>> : x \in 0..4, y \in 0..1}

InitFollow ==
    /\ driver = [d \in Drives |-> DriverInit]
    /\ worker = [d \in Drives |-> WorkerInit]
    /\ queue = [d \in Drives |-> <<>>]
    /\ future = [d \in Drives |-> <<>>]
    /\ obs = [d \in Drives |-> ObsInit]
    /\ ctl = IdleCtl
    /\ shared = SharedResponse
    /\ codec = NoCall
    /\ net = NetInit
    /\ linmot = NoLinMot
    /\ follower \in {NewFollower(path_keypoints, telemetry) :
                         path_keypoints \in Paths, telemetry \in BOOLEAN}

\* the feedback loop calls the stepper with the positions the drives report,
\* until it reports the path complete or raises
Step(current_position, aggregation, nan_raises) ==
    /\ follower.calls < MaxCalls
    /\ follower.out \in {"none", "returned"}
    /\ ~follower.complete
    /\ follower' = Call(follower, current_position, aggregation, nan_raises)
    /\ UNCHANGED <<driver, worker, queue, future, obs, ctl, shared, codec, net, linmot>>

NextFollow ==
    \E current_position \in Positions, aggregation \in {0, Unit \div 2, Unit},
       nan_raises \in BOOLEAN :
        Step(current_position, aggregation, nan_raises)

SpecFollow == InitFollow /\ [][NextFollow]_vars

\* the follower of the example path
OnExamplePath == follower.keypoints = add_end_vector(ExamplePath)

C28_SpeedCap ==
    follower.out = "returned" =>
        /\ ~follower.final_v.nan
        /\ MaxAbs(follower.final_v.v) <= max_velocity

\* C28 for the calls in which the position is not the target and the target
\* is not the waypoint before it
C28_SpeedCapOffTarget ==
    (follower.out = "returned" /\ ~follower.final_v.nan)
        => MaxAbs(follower.final_v.v) <= max_velocity

(***************************************************************************)
(* SpecCommand: the body of Driver.move_with_constant_velocity for every   *)
(* velocity and acceleration of a range around zero.                       *)
(***************************************************************************)
MaxSpeed == 4

\* Motion_Commands.VAI_Stop.__init__, line 295: decceleration = 10.0
StopDecceleration == 10

Motion(command, parameters) == [command |-> command, parameters |-> parameters]

\* the motion command with the acceleration passed on as it came
ConstantVelocityMotionSigned(velocity, acceleration) ==
    LET command == ConstantVelocityCommand(velocity, acceleration)
    IN IF command = "VAI_Stop" THEN Motion(command, <<StopDecceleration>>)
       ELSE Motion(command, <<Abs(velocity), acceleration>>)

\* Driver.move_with_constant_velocity, lines 448-457: the motion command and
\* the parameters its constructor is given
ConstantVelocityMotion(velocity, acceleration) ==
    IF velocity > 0 /\ acceleration > 0
    THEN Motion("AccVAI_Infinite_Motion_Positive_Direction", <<velocity, acceleration>>)
    ELSE IF velocity < 0 /\ acceleration > 0
    THEN Motion("AccVAI_Infinite_Motion_Negative_Direction", <<-velocity, acceleration>>)
    ELSE IF velocity > 0 /\ acceleration < 0
    THEN Motion("AccVAI_Infinite_Motion_Positive_Direction", <<velocity, -acceleration>>)
    ELSE IF velocity < 0 /\ acceleration < 0
    THEN Motion("AccVAI_Infinite_Motion_Negative_Direction", <<-velocity, -acceleration>>)
    ELSE Motion("VAI_Stop", <<StopDecceleration>>)

InitCommand ==
    /\ driver = [d \in Drives |-> DriverInit]
    /\ worker = [d \in Drives |-> WorkerInit]
    /\ queue = [d \in Drives |-> <<>>]
    /\ future = [d \in Drives |-> <<>>]
    /\ obs = [d \in Drives |-> ObsInit]
    /\ ctl = IdleCtl
    /\ shared = SharedResponse
    /\ net = NetInit
    /\ follower = NoFollower
    /\ linmot = NoLinMot
    /\ codec \in {[op |-> "move_with_constant_velocity", velocity |-> velocity,
                    acceleration |-> acceleration, sent |-> <<>>] :
                       velocity \in -MaxSpeed..MaxSpeed,
                       acceleration \in -MaxSpeed..MaxSpeed}

\* Driver.move_with_constant_velocity, lines 448-461: the requests the body
\* hands to self.send
MoveWithConstantVelocity ==
    /\ codec.op = "move_with_constant_velocity"
    /\ codec.sent = <<>>
    /\ codec' = [codec EXCEPT !.sent =
                     <<MotionFeedbackRequest(
                           ConstantVelocityMotion(codec.velocity, codec.acceleration))>>]
    /\ UNCHANGED <<driver, worker, queue, future, obs, ctl, shared, net, follower, linmot>>

NextCommand == MoveWithConstantVelocity

SpecCommand == InitCommand /\ [][NextCommand]_vars

Bytes == 0..255

\* not ready, ready to switch on, setup error, error, operation enabled, homing
MainStates == {0, 2, 3, 4, 8, 9}

InitStateVar ==
    /\ driver = [d \in Drives |-> DriverInit]
    /\ worker = [d \in Drives |-> WorkerInit]
    /\ queue = [d \in Drives |-> <<>>]
    /\ future = [d \in Drives |-> <<>>]
    /\ obs = [d \in Drives |-> ObsInit]
    /\ ctl = IdleCtl
    /\ shared = SharedResponse
    /\ net = NetInit
    /\ follower = NoFollower
    /\ linmot = NoLinMot
    /\ codec \in {[op |-> "state_var", sub_state |-> sub_state, main_state |-> main_state,
                    value |-> NoStateVar] :
                       sub_state \in Bytes, main_state \in MainStates}

\* Response.translate_response, lines 156-206
TranslateStateVar ==
    /\ codec.op = "state_var"
    /\ codec.value = NoStateVar
    /\ codec' = [codec EXCEPT !.value = DecodeStateVar(<<codec.sub_state, codec.main_state>>)]
    /\ UNCHANGED <<driver, worker, queue, future, obs, ctl, shared, net, follower, linmot>>

NextStateVar == TranslateStateVar

SpecStateVar == InitStateVar /\ [][NextStateVar]_vars

\* a state_var with main_state 8 has been decoded
DecodedOperationEnabled ==
    codec.op = "state_var" /\ codec.value # NoStateVar /\ codec.main_state = 8

\* MC_count is sub_state & 0xF and the four flags are bits 4, 5, 6 and 7 of
\* sub_state, stated by arithmetic on the byte
BitsOfSubState ==
    LET sub == codec.sub_state
        value == codec.value
    IN /\ value.main_state = 8
       /\ value.MC_count \in 0..15
       /\ (sub - value.MC_count) % 16 = 0
       /\ value.event_handler_active = (sub \div 16) % 2
       /\ value.motion_active = (sub \div 32) % 2
       /\ value.in_target_position = (sub \div 64) % 2
       /\ value.homed = sub \div 128

\* C27: a state_var with main_state 8 decodes to the MC_count given by the
\* lower four bits of sub_state and to the flags event_handler_active,
\* motion_active, in_target_position and homed given by its bits 4, 5, 6 and
\* 7; sub_state 0x5F gives MC_count 15, event_handler_active, motion_active
\* and in_target_position all true and homed false.
C27_OperationEnabledBits ==
    DecodedOperationEnabled =>
        /\ BitsOfSubState
        /\ codec.sub_state = 95 =>
               /\ codec.value.MC_count = 15
               /\ codec.value.event_handler_active = 1
               /\ codec.value.motion_active = 1
               /\ codec.value.in_target_position = 1
               /\ codec.value.homed = 0

\* C27 as the code has it: the same bits, and sub_state 0x5F = 0101 1111
\* gives MC_count 15, event_handler_active and in_target_position true,
\* motion_active false (bit 5 is clear) and homed false; all three flags are
\* true with homed false exactly for the sub_state bytes 0x70..0x7F.
C27_BitsDecoded ==
    DecodedOperationEnabled =>
        /\ BitsOfSubState
        /\ codec.sub_state = 95 =>
               /\ codec.value.MC_count = 15
               /\ codec.value.event_handler_active = 1
               /\ codec.value.motion_active = 0
               /\ codec.value.in_target_position = 1
               /\ codec.value.homed = 0
        /\ (/\ codec.value.event_handler_active = 1
            /\ codec.value.motion_active = 1
            /\ codec.value.in_target_position = 1
            /\ codec.value.homed = 0) <=> codec.sub_state \in 112..127

\* the state_var (0x5F, 8) has been decoded
C27_Witness ==
    /\ codec.op = "state_var"
    /\ codec.sub_state = 95
    /\ codec.main_state = 8
    /\ codec.value # NoStateVar
    /\ codec.value.MC_count = 15
    /\ codec.value.motion_active = 0
    /\ codec.value.homed = 0

(***************************************************************************)
(* SpecBoot: Controller.switch_on, then Controller.home, then              *)
(* Controller.error_acknowledge, against drives that answer every request  *)
(* and follow the main state machine.                                      *)
(***************************************************************************)
\* A drive: its main state and sub state, whether it has been homed, the
\* control word it received last (None: none yet), how many control words
\* it has received, and how many requests it has answered since the last
\* control word, the one that brought it included.
LinMot(main_state, sub_state, homed) ==
    [main_state |-> main_state, sub_state |-> sub_state, homed |-> homed,
     control_word |-> None, words |-> 0, answered |-> 0]

\* after power up: not ready to switch on, ready to switch on, or operation
\* enabled, homed or not
BootStates ==
    {LinMot(0, 0, FALSE), LinMot(2, 0, FALSE), LinMot(8, 0, FALSE), LinMot(8, 128, TRUE)}

\* The main state machine: the all-zero control word leads to state 2,
\* switch_on from there to state 8, switch_on with home from state 8 to
\* state 9 and on to sub state 0x0F, switch_on alone from there back to
\* state 8 with the homed bit set.
Advance(m) ==
    CASE m.control_word = CW_zero /\ m.main_state # 2 ->
            [m EXCEPT !.main_state = 2, !.sub_state = 0]
      [] m.control_word = CW_switch_on /\ m.main_state = 2 ->
            [m EXCEPT !.main_state = 8, !.sub_state = IF m.homed THEN 128 ELSE 0]
      [] m.control_word = CW_switch_on_home /\ m.main_state = 8 ->
            [m EXCEPT !.main_state = 9, !.sub_state = 0]
      [] m.control_word = CW_switch_on_home /\ m.main_state = 9 /\ m.sub_state # 15 ->
            [m EXCEPT !.sub_state = 15, !.homed = TRUE]
      [] m.control_word = CW_switch_on /\ m.main_state = 9 /\ m.sub_state = 15 ->
            [m EXCEPT !.main_state = 8, !.sub_state = 128]
      [] OTHER -> m

OnItsWay(m) == Advance(m) # m

\* the drive takes the control word of a request
Takes(m, request) ==
    IF request.control_word = None THEN m
    ELSE [m EXCEPT !.control_word = request.control_word, !.words = @ + 1, !.answered = 0]

InitBoot ==
    /\ driver = [d \in Drives |-> DriverInit]
    /\ worker = [d \in Drives |-> WorkerInit]
    /\ queue = [d \in Drives |-> <<>>]
    /\ future = [d \in Drives |-> <<>>]
    /\ obs = [d \in Drives |-> ObsInit]
    /\ ctl = IdleCtl
    /\ shared = SharedResponse
    /\ codec = NoCall
    /\ net = NetInit
    /\ follower = NoFollower
    /\ linmot \in [Drives -> BootStates]

\* the state machine of drive d moves on
DriveAdvances(d) ==
    /\ OnItsWay(linmot[d])
    /\ linmot' = [linmot EXCEPT ![d] = Advance(@)]
    /\ UNCHANGED <<driver, worker, queue, future, obs, ctl, shared, codec, net, follower>>

\* Drive d answers the request its worker waits for with the state it is in,
\* no warning and no error.  A transition takes the drive less than the
\* timeout of the procedure that waits for it: wait_for_change gives up at
\* the check after MaxPolls rounds, and by then the drive has arrived.
MachineReplies(d) ==
    LET m == Takes(linmot[d], worker[d].request)
    IN /\ worker[d].status = "recv"
       /\ OnItsWay(m) => m.answered <= MaxPolls
       /\ \E c \in {OnResponse(Config(d), Raw(<<m.sub_state, m.main_state>>, 0, 0, 0), FALSE)} :
              Commit(d, c)
       /\ shared' = MarkRealtime(shared, worker[d].request)
       /\ linmot' = [linmot EXCEPT ![d] = [m EXCEPT !.answered = @ + 1]]
       /\ UNCHANGED <<queue, ctl, codec, net, follower>>

\* the call op of the controller has returned and the application makes the
\* next call
After(op) == ctl.pc = "returned" /\ ctl.op = op

\* Controller.home, lines 154-156, called after switch_on has returned
ThenHome ==
    /\ After("switch_on")
    /\ SubmitTo(Drives, TRUE, [d \in Drives |-> Task("home")])
    /\ ctl' = Waiting(Called("home"), "all", "none")
    /\ UNCHANGED <<driver, worker, obs, shared, codec, net, follower, linmot>>

\* Controller.error_acknowledge, lines 164-166, called after home has returned
ThenErrorAcknowledge ==
    /\ After("home")
    /\ SubmitTo(Drives, TRUE, [d \in Drives |-> Task("acknowledge_error")])
    /\ ctl' = Waiting(Called("error_acknowledge"), "all", "none")
    /\ UNCHANGED <<driver, worker, obs, shared, codec, net, follower, linmot>>

NextBoot ==
    \/ CallSwitchOn
    \/ ThenHome
    \/ ThenErrorAcknowledge
    \/ Join
    \/ JoinBlocked
    \/ \E d \in Drives : WorkerTake(d)
    \/ \E d \in Drives : MachineReplies(d)
    \/ \E d \in Drives : DriveAdvances(d)

SpecBoot == InitBoot /\ [][NextBoot]_vars

\* MachineReplies(d) as far as the drive is concerned
Answers(d) ==
    LET m == Takes(linmot[d], worker[d].request)
    IN /\ worker[d].status = "recv"
       /\ OnItsWay(m) => m.answered <= MaxPolls
       /\ linmot' = [linmot EXCEPT ![d] = [m EXCEPT !.answered = @ + 1]]

\* The main thread, the worker threads and the drives run on.  A step of
\* SpecBoot that changes linmot as Answers(d) says is a step MachineReplies(d),
\* which is enabled exactly when Answers(d) is.
SpecBootLive ==
    /\ SpecBoot
    /\ WF_vars(CallSwitchOn \/ ThenHome \/ ThenErrorAcknowledge \/ Join)
    /\ \A d \in Drives : /\ WF_vars(WorkerTake(d))
                         /\ WF_linmot(Answers(d))
                         /\ WF_vars(DriveAdvances(d))

EnabledAndHomed(d) == linmot[d].main_state = 8 /\ linmot[d].sub_state \div 128 = 1

\* the task the controller gave to drive d in its latest call has resolved
\* with result
ResolvedWith(d, result) == future[d][ctl.futures[d]] = result

\* the controller is past its call of home
HomeReturned == After("home") \/ ctl.op = "error_acknowledge"

\* drive d is enabled and homed, or the control word it has received takes
\* it there without another one
ComesHome(d) ==
    \/ EnabledAndHomed(d)
    \/ /\ linmot[d].control_word = CW_switch_on
       /\ linmot[d].main_state = 9
       /\ linmot[d].sub_state = 15

MaxAcks == 2

NextAck ==
    \/ Submit(Task("acknowledge_error"), MaxAcks)
    \/ WorkerTake(1)
    \/ DriveReplies(1, {<<15, 8>>}, {0}, ErrorCodes)
    \/ ReceiveTimeout(1)

SpecAck == InitDrive /\ [][NextAck]_vars

\* the worker of drive d is inside acknowledge_error, in a call of send
Acknowledging(d) == worker[d].task.kind = "acknowledge_error" /\ worker[d].status = "recv"

\* the task the worker of drive d runs goes on in this step, from the call of
\* send at pc to the one at next
GoesOn(d, pc, next) ==
    /\ Acknowledging(d) /\ worker[d].pc = pc
    /\ worker'[d].task = worker[d].task /\ worker'[d].pc = next

\* the task the worker of drive d runs returns in this step
Returns(d) ==
    /\ worker[d].status = "recv"
    /\ obs'[d].done.id = worker[d].task.id
    /\ obs'[d].done.exc = "none"

\* the error code of the response decoded in this step
Reread(d) == obs'[d].response.error_code

\* C31: acknowledge_error sends control words only after it has read an error
\* code that is not zero; the send of error_acknowledge that returns is
\* followed by the send of the all-zero control word, which reads the error
\* code again; when that code equals the one before, the task stops and
\* awaiting_error_acknowledgement stays true; when it differs and is not zero
\* the task sends error_acknowledge again, for the new code.
C31_AcknowledgeInPairs ==
    /\ [](\A d \in Drives : Acknowledging(d) =>
             LET w == worker[d] IN
             /\ w.request = (CASE w.pc = "ack_query" -> AckQuery
                               [] w.pc = "ack_command" -> AckCommand
                               [] OTHER -> AckReread)
             /\ w.pc \in {"ack_query", "ack_command", "ack_reread"}
             /\ w.request.control_word # None => w.error_code \notin {None, 0})
    /\ [][\A d \in Drives :
             LET w == worker[d] IN
             /\ (Acknowledging(d) /\ worker'[d].task = w.task)
                    => worker'[d].pc \in
                          (CASE w.pc = "ack_query" -> {"ack_query", "ack_command"}
                             [] w.pc = "ack_command" -> {"ack_command", "ack_reread"}
                             [] OTHER -> {"ack_reread", "ack_command"})
             /\ GoesOn(d, "ack_query", "ack_command")
                    => (Reread(d) \notin {None, 0} /\ worker'[d].error_code = Reread(d))
             /\ GoesOn(d, "ack_reread", "ack_command")
                    => /\ Reread(d) \notin {None, 0, w.error_code}
                       /\ worker'[d].error_code = Reread(d)
             /\ (Acknowledging(d) /\ w.pc = "ack_query" /\ Returns(d))
                    => Reread(d) \in {None, 0}
             /\ (Acknowledging(d) /\ w.pc = "ack_command") => ~Returns(d)
             /\ (Acknowledging(d) /\ w.pc = "ack_reread" /\ Returns(d))
                    => \/ Reread(d) = w.error_code /\ driver'[d].awaiting_error_acknowledgement
                       \/ Reread(d) = 0 /\ ~driver'[d].awaiting_error_acknowledgement]_vars

\* acknowledge_error has acknowledged one error code, read another one and
\* sends error_acknowledge for it
C31_Witness ==
    /\ Acknowledging(1)
    /\ worker[1].pc = "ack_command"
    /\ worker[1].rounds = 1
    /\ worker[1].error_code = 9
    /\ driver[1].awaiting_error_acknowledgement

(***************************************************************************)
(* SpecLazy: one drive whose state_var the model keeps, and a client that  *)
(* calls move_with_constant_velocity; the drive answers or not, reports an *)
(* error or not, and changes its state as it likes.                        *)
(***************************************************************************)
\* not ready to switch on; operation enabled with MC_count 14 and 15
EchoStates == {LinMot(2, 0, FALSE), LinMot(8, 14, FALSE), LinMot(8, 15, FALSE)}

InitLazy ==
    /\ driver = [d \in Drives |-> DriverInit]
    /\ worker = [d \in Drives |-> WorkerInit]
    /\ queue = [d \in Drives |-> <<>>]
    /\ future = [d \in Drives |-> <<>>]
    /\ obs = [d \in Drives |-> ObsInit]
    /\ ctl = IdleCtl
    /\ shared = SharedResponse
    /\ codec = NoCall
    /\ net = NetInit
    /\ follower = NoFollower
    /\ linmot \in [Drives -> EchoStates]

\* the drive d comes to another state
DriveTurns(d) ==
    /\ \E m \in EchoStates \ {linmot[d]} : linmot' = [linmot EXCEPT ![d] = m]
    /\ UNCHANGED <<driver, worker, queue, future, obs, ctl, shared, codec, net, follower>>

\* datagram.recieve returns the reply of drive d, which carries the state
\* the drive is in and the error code error_code
EchoReplies(d, error_code) ==
    /\ worker[d].status = "recv"
    /\ \E c \in {OnResponse(Config(d),
                            Raw(<<linmot[d].sub_state, linmot[d].main_state>>, 0, error_code, 15),
                            FALSE)} :
           Commit(d, c)
    /\ shared' = MarkRealtime(shared, worker[d].request)
    /\ UNCHANGED <<queue, ctl, codec, net, follower, linmot>>

NextLazy ==
    \/ SubmitOn(1, MoveTask, MaxMotion)
    \/ WorkerTake(1)
    \/ \E error_code \in {0, 7} : EchoReplies(1, error_code)
    \/ ReceiveTimeout(1)
    \/ DriveTurns(1)

SpecLazy == InitLazy /\ [][NextLazy]_vars

\* the MC_count the drive d echoes in a state_var, 0 standing for none
Echo(d) == IF linmot[d].main_state = 8 THEN linmot[d].sub_state % 16 ELSE 0

\* the worker of drive d waits for the answer to the query of get_MC_count
QueriesCount(d) ==
    /\ worker[d].status = "recv"
    /\ worker[d].inner = "MC"
    /\ worker[d].request = StateQuery
    /\ StateQuery.MC_interface = "none"

\* the worker of drive d waits for the answer to a motion command
OnTheWire(d) == worker[d].status = "recv" /\ worker[d].request.MC_interface # "none"

\* C32: no motion command is transmitted before a query of the state_var
\* that carries no motion command has been answered; the motion command that
\* follows the answer goes out with the count the drive echoed plus one,
\* modulo 16, and with 1 when the drive is not in main state 8; once a query
\* has succeeded there is no other; a query that fails leaves the count not
\* up to date, and the next motion command starts with the query again.
C32_CountReadOnce ==
    /\ [](\A d \in Drives :
             /\ OnTheWire(d) => driver[d].MC_count_up_to_date
             /\ driver[d].MC_count_up_to_date => worker[d].inner # "MC"
             /\ (worker[d].status = "recv" /\ ~driver[d].MC_count_up_to_date)
                    => QueriesCount(d))
    /\ [][\A d \in Drives :
             /\ driver[d].MC_count_up_to_date => driver'[d].MC_count_up_to_date
             /\ (~driver[d].MC_count_up_to_date /\ driver'[d].MC_count_up_to_date)
                    => /\ QueriesCount(d)
                       /\ worker'[d].task = worker[d].task
                       /\ worker'[d].request.MC_interface # "none"
                       /\ worker'[d].status = "recv"
                       /\ obs'[d].call_tx = 1
                       /\ obs'[d].first_MC = (Echo(d) + 1) % 16
                       /\ linmot[d].main_state # 8 => obs'[d].first_MC = 1
             /\ (QueriesCount(d) /\ worker'[d].task # worker[d].task)
                    => (~driver'[d].MC_count_up_to_date
                        /\ obs'[d].done.exc \in {"TimeoutError", "DriveError"})]_vars

\* the query of the first call went unanswered; the second call asked again,
\* was told count 15 and sent its motion command with count 0
C32_Witness ==
    /\ Len(future[1]) >= 2
    /\ future[1][1] = "TimeoutError"
    /\ OnTheWire(1)
    /\ worker[1].task.id = 2
    /\ obs[1].first_MC = 0
    /\ obs[1].call_tx = 1
    /\ driver[1].MC_count = 16

(***************************************************************************)
(* Properties of Driver.home, in SpecProcedures.                           *)
(***************************************************************************)
\* the home of drive d has asked for homing, polled, and returned
PolledAndReturned(d) ==
    /\ obs[d].trace.kind = "home"
    /\ Ended(d)
    /\ obs[d].done.exc = "none"
    /\ obs[d].trace.cws # <<>>
    /\ obs[d].trace.cws[1] = CW_switch_on_home

\* C33: when the polling for homing_finished in home has ended, because
\* homing_finished was reported or because the timeout has elapsed, the last
\* control word home has sent is (switch_on).
C33_FinalizesWithSwitchOn ==
    \A d \in Drives :
        PolledAndReturned(d) => obs[d].trace.cws[Len(obs[d].trace.cws)] = CW_switch_on

\* C33 as the code has it: when the polling has ended because
\* homing_finished was reported, home sends (switch_on) last and returns
\* True; when it has ended because the timeout has elapsed, home sends the
\* all-zero control word last, which switches the drive off, and returns
\* False.
C33_FinalizesOrSwitchesOff ==
    \A d \in Drives :
        PolledAndReturned(d) =>
            LET t == obs[d].trace IN
            \/ /\ obs[d].done.result = "True"
               /\ t.cws = <<CW_switch_on_home, CW_switch_on>>
            \/ /\ obs[d].done.result = "False"
               /\ t.cws = <<CW_switch_on_home, CW_zero>>

\* a home whose polling timed out has sent the all-zero control word and
\* returned False
C33_Witness ==
    /\ PolledAndReturned(1)
    /\ obs[1].done.result = "False"
    /\ obs[1].trace.cws = <<CW_switch_on_home, CW_zero>>
    /\ future[1][1] = "False"

(***************************************************************************)
(* Properties of awaiting_error_acknowledgement, in SpecTasks.             *)
(***************************************************************************)
\* C34: awaiting_error_acknowledgement, once true, becomes false only in the
\* step in which an acknowledge_error task returns after it has read the
\* error code again and found none; no other task, no response, with or
\* without error code, and no timeout resets it.
C34_OnlyAcknowledgeClears ==
    [][\A d \in Drives :
          (driver[d].awaiting_error_acknowledgement
           /\ ~driver'[d].awaiting_error_acknowledgement)
              => /\ Acknowledging(d)
                 /\ worker[d].pc = "ack_reread"
                 /\ Returns(d)
                 /\ Reread(d) = 0]_vars

\* a motion command was answered with an error; the flag has stayed true
\* through the acknowledge_error after it, which read the error and gave up
\* with TimeoutError
C34_Witness ==
    /\ driver[1].awaiting_error_acknowledgement
    /\ Len(future[1]) = 2
    /\ future[1][1] = "DriveError"
    /\ obs[1].done.id = 2
    /\ obs[1].done.kind = "acknowledge_error"
    /\ obs[1].done.exc = "TimeoutError"
    /\ obs[1].done.error_code = 7

(***************************************************************************)
(* SpecMonitor: the decoding of the monitoring_channel field for every     *)
(* assignment of parameters to its four slots.                             *)
(***************************************************************************)
Slots == 1..4

\* the raw value of a slot, a multiple of the conversion factor
RawWords == {10, 20}

\* Command_Parameter.conversion_factor of the parameters of the slots
ConversionFactor == 10

\* struct.unpack(format, ...), lines 308-314: a configured slot gives one
\* value, "4x" skips four bytes and gives none
RECURSIVE Unpack(_, _, _)
Unpack(configured, raw, i) ==
    IF i > 4 THEN <<>>
    ELSE (IF configured[i] THEN <<raw[i]>> ELSE <<>>) \o Unpack(configured, raw, i + 1)

NoChannels == [exc |-> "none", values |-> [i \in Slots |-> None]]

\* lines 315-320: the loop over enumerate(monitoring_channel_parameters);
\* the parameter of slot i is described as i; a tuple index out of range
\* raises IndexError
RECURSIVE UpdateChannels(_, _, _, _)
UpdateChannels(configured, monitoring_channel_values, i, translated) ==
    IF i > 4 THEN translated
    ELSE IF ~configured[i]
    THEN UpdateChannels(configured, monitoring_channel_values, i + 1, translated)
    ELSE IF i > Len(monitoring_channel_values)
    THEN [translated EXCEPT !.exc = "IndexError"]
    ELSE UpdateChannels(configured, monitoring_channel_values, i + 1,
                        [translated EXCEPT
                            !.values[i] = monitoring_channel_values[i] \div ConversionFactor])

\* translate_response, case "monitoring_channel"
TranslateMonitoringChannel(configured, raw) ==
    UpdateChannels(configured, Unpack(configured, raw, 1), 1, NoChannels)

InitMonitor ==
    /\ driver = [d \in Drives |-> DriverInit]
    /\ worker = [d \in Drives |-> WorkerInit]
    /\ queue = [d \in Drives |-> <<>>]
    /\ future = [d \in Drives |-> <<>>]
    /\ obs = [d \in Drives |-> ObsInit]
    /\ ctl = IdleCtl
    /\ shared = SharedResponse
    /\ net = NetInit
    /\ follower = NoFollower
    /\ linmot = NoLinMot
    /\ codec \in {[op |-> "monitoring_channel", configured |-> configured, raw |-> raw,
                   done |-> FALSE, out |-> NoChannels] :
                      configured \in [Slots -> BOOLEAN], raw \in [Slots -> RawWords]}

TranslateMonitoring ==
    /\ codec.op = "monitoring_channel"
    /\ ~codec.done
    /\ codec' = [codec EXCEPT !.done = TRUE,
                              !.out = TranslateMonitoringChannel(codec.configured, codec.raw)]
    /\ UNCHANGED <<driver, worker, queue, future, obs, ctl, shared, net, follower, linmot>>

NextMonitor == TranslateMonitoring

SpecMonitor == InitMonitor /\ [][NextMonitor]_vars

\* C35: for every assignment of parameters to the four slots, the decoded
\* monitoring_channel holds for each configured slot the raw value of the
\* four bytes of that slot divided by the conversion factor of its
\* parameter, and nothing for an empty slot.
C35_SlotsDecodedInPlace ==
    (codec.op = "monitoring_channel" /\ codec.done) =>
        /\ codec.out.exc = "none"
        /\ \A i \in Slots :
               codec.out.values[i] = IF codec.configured[i]
                                     THEN codec.raw[i] \div ConversionFactor
                                     ELSE None

(***************************************************************************)
(* SpecDrain: one drive, the main thread calling queued methods and then   *)
(* terminating, and the worker thread with the condition of its loop.      *)
(***************************************************************************)
\* threading.main_thread().is_alive()
MainAlive == ctl.pc # "dead"

\* the main thread calls a queued method of drive 1
SubmitAlive(task) == MainAlive /\ Submit(task, MaxTasks)

\* the main thread terminates
MainTerminates ==
    /\ MainAlive
    /\ ctl' = [ctl EXCEPT !.pc = "dead"]
    /\ UNCHANGED <<driver, worker, queue, future, obs, shared, codec, net, follower, linmot>>

\* a worker that leaves its loop as soon as the main thread is gone
WorkerExitsWithMain(d) ==
    /\ WorkerReady(worker[d])
    /\ ~MainAlive
    /\ worker' = [worker EXCEPT ![d].status = "exited"]
    /\ UNCHANGED <<driver, queue, future, obs, ctl, shared, codec, net, follower, linmot>>

\* _run_method_queue, line 64: the condition of the while loop is false and
\* the thread ends
WorkerExits(d) ==
    /\ WorkerReady(worker[d])
    /\ ~(MainAlive \/ Len(queue[d]) # 0)
    /\ worker' = [worker EXCEPT ![d].status = "exited"]
    /\ UNCHANGED <<driver, queue, future, obs, ctl, shared, codec, net, follower, linmot>>

DrainTasks == {Task("acknowledge_error"), Task("get_status_word"), MoveTask}

NextDrain ==
    \/ \E task \in DrainTasks : SubmitAlive(task)
    \/ MainTerminates
    \/ WorkerTake(1)
    \/ ReceiveTimeout(1)
    \/ DriveReplies(1, {<<15, 8>>}, {0}, {0, 7})
    \/ WorkerExits(1)

SpecDrain == InitDrive /\ [][NextDrain]_vars

\* The worker thread runs on, and every call of datagram.recieve returns or
\* raises queue.Empty.
SpecDrainLive ==
    /\ SpecDrain
    /\ WF_vars(WorkerTake(1))
    /\ WF_vars(ReceiveTimeout(1) \/ DriveReplies(1, {<<15, 8>>}, {0}, {0, 7}))

\* the i-th task submitted to drive d has been run and its future resolved
Resolved(d, i) == Len(future[d]) >= i /\ future[d][i] # "pending"

QueriesRtCount(d) ==
    /\ worker[d].status = "recv"
    /\ worker[d].inner = "RT"
    /\ worker[d].request = RtCountQuery

\* the call of send the worker of drive d is in raises in this step, and the
\* task with it
Fails(d) ==
    /\ worker[d].status = "recv"
    /\ obs'[d].done.id = worker[d].task.id
    /\ obs'[d].done.exc \in {"TimeoutError", "DriveError"}

\* C37: when the query that reads the realtime config count from the drive
\* fails, with TimeoutError or with DriveError, the count is not marked as up
\* to date, so that the next request with a realtime config asks again.
C37_FailedQueryNotUpToDate ==
    [][\A d \in Drives :
          (QueriesRtCount(d) /\ Fails(d))
              => ~driver'[d].realtime_config_count_up_to_date]_vars

(***************************************************************************)
(* Properties of the cycles of Controller.feedback_loop, in SpecMove.      *)
(***************************************************************************)
\* the feedback loop waits for the go_to_pos tasks of a cycle
InCycle == ctl.op = "feedback_loop" /\ ctl.pc = "wait" /\ ctl.phase = "go_to_pos"

\* the main thread calls the stepper
CallsStepper == ctl'.calls # ctl.calls

\* the first cycle of a feedback loop begins
FirstCycle == ctl.op # "feedback_loop" /\ ctl'.op = "feedback_loop"

AtMostOne(n) == IF n > 1 THEN 1 ELSE n

\* the counts kept for observation only, rounds and task_tx, stop at one
Folded(c) == [c EXCEPT !.W.rounds = AtMostOne(@), !.O.task_tx = AtMostOne(@)]

\* the drive d answers the request its worker waits for, with any error code
DriveRepliesAnyCode(d) ==
    /\ worker[d].status = "recv"
    /\ \E raw \in Replies(worker[d].request, {<<15, 8>>}, {0}, ErrorCodes) :
          \E c \in {OnResponse(Config(d), raw, FALSE)} : Commit(d, Folded(c))
    /\ shared' = MarkRealtime(shared, worker[d].request)
    /\ UNCHANGED <<queue, ctl, codec, net, follower, linmot>>

\* datagram.recieve raises queue.Empty after response_timeout
ReceiveTimeoutFolded(d) ==
    /\ worker[d].status = "recv"
    /\ \E c \in {OnTimeout(Config(d))} : Commit(d, Folded(c))
    /\ UNCHANGED <<queue, ctl, shared, codec, net, follower, linmot>>

NextAckLive ==
    \/ Submit(Task("acknowledge_error"), MaxAcks)
    \/ WorkerTake(1)
    \/ DriveRepliesAnyCode(1)
    \/ ReceiveTimeoutFolded(1)

SpecAckLive ==
    /\ InitDrive
    /\ [][NextAckLive]_vars
    /\ WF_vars(WorkerTake(1))
    /\ WF_vars(DriveRepliesAnyCode(1) \/ ReceiveTimeoutFolded(1))

\* C39: an acknowledge_error task ends, whatever error codes the drive
\* reports, when every call of send it makes returns or raises.
C39_AcknowledgeEnds ==
    \A d \in Drives : Acknowledging(d) ~> ~Acknowledging(d)

====
